---- MODULE Spec2Model ----
(***************************************************************************)
(* A model of the sharded cuckoo hash table of src/src/HashTable.ts and    *)
(* src/src/Table.ts (the same code is bundled in src/src/index.ts) and of  *)
(* the tabulation hash of src/unnamed/part_000.                            *)
(*                                                                         *)
(* A shard's byte buffer is modelled bucket by bucket: a bucket is a       *)
(* record of the 20 metadata bytes and the eight key/value slots, and a    *)
(* buffer is a function from bucket index to bucket that leaves out the    *)
(* buckets whose bytes are all zero (Buffer.alloc zero-fills).  Every byte *)
(* keeps its integer value; bit tests and updates are done arithmetically. *)
(* Hash words are signed 32-bit integers as in the source (Int32Array).    *)
(***************************************************************************)
EXTENDS Integers, Sequences, FiniteSets, TLC

VARIABLES
  scn,       \* the construction arguments and the entropy TABLE of this process
  tables,    \* HashTable.tables: shard index -> [bucket, buckets, mask, buffer]
  length,    \* HashTable.length
  capacity,  \* HashTable.capacity
  mask,      \* HashTable.mask
  mode,      \* HashTable.mode
  H,         \* the process-wide hash registers <<H1, H2>>
  shadow,    \* history: key -> value of the most recent set/cache not undone by unset
  used,      \* history: how many keys of the workload have been introduced
  extras,    \* history: how many calls other than first insertions were made
  last,      \* history: the last call, its arguments, its outcome and, for set,
             \* the shard-level calls it made
  pre,       \* history: the coordinator state the last call started from
  prev,      \* history: the call before the last and the state it started from,
             \* kept if that call was a set or a cache
  removed    \* history: the keys that an unset has removed so far

vars == <<scn, tables, length, capacity, mask, mode, H, shadow, used, extras, last, pre,
          prev, removed>>

(***************************************************************************)
(* Program constants.                                                      *)
(***************************************************************************)
BUFFERS_MIN == 1
BUFFERS_MAX == 8192
BUCKETS_MIN == 2
BUCKETS_MAX == 65536
\* buffer.kMaxLength of the host; the documented value 2 GiB - 1.
BUFFER_MAX == 2147483647
\* 8 slots per bucket, 8 filters per bucket.
SLOTS == 8
\* The counter of elements in second position saturates here.
COUNT_MAX == 255
\* Constructor arguments keySize and valueSize of every modelled table.
keySize == 4
valueSize == 1

(***************************************************************************)
(* Bounds of the model.                                                    *)
(***************************************************************************)
\* Calls other than the first insertion of the workload's next key.
MaxExtra == 1

(***************************************************************************)
(* Bytes and bits.                                                         *)
(***************************************************************************)
\* (x >> s) & 1 for a byte x
Bit(x, s) == (x \div (2 ^ s)) % 2
\* x | (1 << s)
SetBit(x, s) == IF Bit(x, s) = 1 THEN x ELSE x + (2 ^ s)
\* x & ~(1 << s)
ClearBit(x, s) == IF Bit(x, s) = 1 THEN x - (2 ^ s) ELSE x

\* a ^ b on two's complement integers
RECURSIVE Xor(_, _)
Xor(a, b) ==
  IF a = 0 THEN b
  ELSE IF b = 0 THEN a
  ELSE IF a = -1 THEN (-b) - 1
  ELSE IF b = -1 THEN (-a) - 1
  ELSE (2 * Xor(a \div 2, b \div 2)) + (((a % 2) + (b % 2)) % 2)

\* x & m for a mask m = 2^k - 1, also for negative x (two's complement)
AndMask(x, m) == x % (m + 1)
\* x >> n, the sign-propagating shift
Sar(x, n) == x \div (2 ^ n)
\* (a << 8) | b for a, b in -128..127: the sign extension of a negative b
\* sets every bit above its low byte.
ShlOr(a, b) == IF b >= 0 THEN (a * 256) + b ELSE b

\* A 32-bit word from its high byte (signed), its second byte and its low 16 bits.
Word(hi, tag, low) == (hi * 16777216) + (tag * 65536) + low

\* let x = value in the statements that follow
With(x, Op(_)) == Op(x)

ZeroKey == [i \in 1..keySize |-> 0]
ZeroValue == [i \in 1..valueSize |-> 0]
\* The 4-byte key number b: its first byte is b & 255, its second b >> 8.
KeyOf(b) == [i \in 1..keySize |-> IF i = 1 THEN b % 256 ELSE IF i = 2 THEN b \div 256 ELSE 0]
\* The two values the workload stores under a key.
ValueOf(b, alt) == [i \in 1..valueSize |-> IF alt THEN (b + 100) % 256 ELSE (b + 1) % 256]

(***************************************************************************)
(* The entropy TABLE and the tabulation hash.                              *)
(*                                                                         *)
(* TABLE is filled from crypto.randomBytes, so any assignment of words is  *)
(* a possible process.  Three assignments are modelled, each chosen so     *)
(* that the keys of its workload collide the way the table's hard cases    *)
(* need: Plan gives, for the first key byte, the words at byte position 0  *)
(* of the H1 half and of the H2 half.  The words of the other three byte   *)
(* positions are Pad for the byte 0; "crowd" has words for a second key    *)
(* byte of 1 as well.                                                      *)
(***************************************************************************)
Seeds == {"pack", "chain", "crowd"}

\* "pack": P keys (bytes 1..7, 9 and the all-zero key 0) have b1 = b2 = 0 under
\* every mask; R keys (11..18) have b1 = b2 = 1; V (20) has b2 = 1 and b1 = 0
\* under the masks 1 and 3 but 4 under wider ones, and so has W (8), whose
\* H1 differs from V's in the lowest bit of the high byte; X (50) goes to
\* shard 1 of two.
PackPlan(b) ==
  CASE b \in 1..4 -> <<Word(2, 53, 0), Word(4, 0, 0)>>
    [] b \in 5..7 -> <<Word(2, 61, 0), Word(4, 0, 0)>>
    [] b = 9 -> <<Word(2, 53, 0), Word(4, 0, 0)>>
    [] b = 0 -> <<Word(2, 0, 0), Word(4, 119, 0)>>
    [] b \in 11..18 -> <<Word(-3, 33, 1), Word(-4, 0, 1)>>
    [] b = 20 -> <<Word(-2, 181, 4), Word(-2, 0, 1)>>
    [] b = 8 -> <<Word(-3, 182, 4), Word(-2, 0, 1)>>
    [] b = 50 -> <<Word(5, 66, 7), Word(1, 0, 9)>>
    [] OTHER -> <<0, 0>>

\* "chain": Q keys (21..29) have b1 = 3, b2 = 1, and 29 a tag of its own; R
\* keys (11..18) have b1 = 1, b2 = 2; the keys 30 and 0 have b1 = b2 = 19 (3
\* under the masks 3, 7, 15).
ChainPlan(b) ==
  CASE b \in 21..28 -> <<Word(0, 97, 3), Word(0, 0, 1)>>
    [] b = 29 -> <<Word(0, 100, 3), Word(0, 0, 1)>>
    [] b \in 11..18 -> <<Word(-3, 33, 1), Word(-4, 0, 2)>>
    [] b = 30 -> <<Word(0, 98, 19), Word(0, 0, 19)>>
    [] b = 0 -> <<Word(0, 0, 19), Word(0, 0, 19)>>
    [] b = 50 -> <<Word(5, 66, 7), Word(1, 0, 9)>>
    [] OTHER -> <<0, 0>>

\* "crowd": every key has b1 = 0; the keys 0..7 have b2 = 0 and the keys from
\* 8 on have, eight by eight, b2 = 1, 2, ...
CrowdPlan(b) ==
  IF b < 8 THEN <<Word(0, 16, 0), Word(0, 0, 0)>>
  ELSE <<Word(0, 32 + (b % 8), 0), Word(0, 0, 1 + ((b - 8) \div 8))>>

Plan(seed, b) ==
  CASE seed = "pack" -> PackPlan(b)
    [] seed = "chain" -> ChainPlan(b)
    [] OTHER -> CrowdPlan(b)

\* Three words whose exclusive or is 0.
Pad(j) == CASE j = 1 -> 286326784 [] j = 2 -> 572653568 [] OTHER -> 858980352

\* TABLE[index]; index = (table number << 8) + key byte.
TABLE(seed, index) ==
  LET j == index \div 256
      b == index % 256
  IN  CASE j = 0 -> Plan(seed, b)[1]
        [] j = 4 -> Plan(seed, b)[2]
        [] j \in {1, 2, 3} /\ b = 0 -> Pad(j)
        [] j \in {5, 6, 7} /\ b = 0 -> Pad(j - 4)
        \* "crowd", second key byte 1: another tag, and b2 = 32 for the keys 256..263
        [] seed = "crowd" /\ j = 1 /\ b = 1 -> Pad(1) + Word(0, 64, 0)
        [] seed = "crowd" /\ j = 5 /\ b = 1 -> Pad(1) + 32
        [] OTHER -> 0

\* The loop of Hash from byte offset i on, four bytes a round.
RECURSIVE HashLoop(_, _, _, _, _, _)
HashLoop(seed, key, size, i, h1, h2) ==
  IF i >= size THEN <<h1, h2>>
  ELSE
    LET t(j, o) == TABLE(seed, (((2 * i) + j) * 256) + key[i + o + 1])
        a == Xor(Xor(t(0, 0), t(1, 1)), Xor(t(2, 2), t(3, 3)))
        b == Xor(Xor(t(4, 0), t(5, 1)), Xor(t(6, 2), t(7, 3)))
    IN  HashLoop(seed, key, size, i + 4, Xor(h1, a), Xor(h2, b))

HashCompute(seed, key) == HashLoop(seed, key, keySize, 0, 0, 0)

\* The bytes that occur as a first key byte in the workloads.
PlanBytes == (0..9) \cup (11..18) \cup (20..30) \cup {50}

HashMemo == [seed \in Seeds |-> [b \in PlanBytes |-> HashCompute(seed, KeyOf(b))]]

\* Hash(key, keyOffset, keySize): the new contents of the registers <<H1, H2>>.
Hash(seed, key) ==
  IF key[1] \in PlanBytes /\ key = KeyOf(key[1])
  THEN HashMemo[seed][key[1]]
  ELSE HashCompute(seed, key)

\* The shard a pair of hash words selects: (((H1 >> 24) << 8) | (H2 >> 24)) & mask
ShardOf(h, m) == AndMask(ShlOr(Sar(h[1], 24), Sar(h[2], 24)), m)

(***************************************************************************)
(* Buckets and buffers.                                                    *)
(***************************************************************************)
Slots == 0..(SLOTS - 1)

\* A bucket of a zero-filled buffer.
ZeroBucket ==
  [filter |-> [f \in Slots |-> 0],  \* bytes 0..7
   count |-> 0,                    \* byte 8
   present |-> 0,                  \* byte 9
   tags |-> [s \in Slots |-> 0],   \* bytes 10..17
   clock |-> 0,                    \* byte 18: recently used bits
   hand |-> 0,                     \* byte 19
   keys |-> [s \in Slots |-> ZeroKey],
   values |-> [s \in Slots |-> ZeroValue]]

\* Buffer.alloc(size)
Alloc == [b \in {} |-> ZeroBucket]

\* The bucket at index b of a buffer.
Bkt(buf, b) == IF b \in DOMAIN buf THEN buf[b] ELSE ZeroBucket

\* The buffer with bucket b replaced.
Put(buf, b, rec) ==
  IF rec = ZeroBucket
  THEN [j \in (DOMAIN buf) \ {b} |-> buf[j]]
  ELSE [j \in (DOMAIN buf) \cup {b} |-> IF j = b THEN rec ELSE buf[j]]

\* SLOT[index]: the first clear bit of a presence byte, 8 if there is none.
RECURSIVE SlotFrom(_, _)
SlotFrom(index, slot) ==
  IF slot < SLOTS /\ Bit(index, slot) # 0 THEN SlotFrom(index, slot + 1) ELSE slot

SLOT == [index \in 0..255 |-> SlotFrom(index, 0)]

\* copy(size): the first size bytes of the source.
Copy(src, size) == [i \in 1..size |-> src[i]]

\* A comparison that looks at no byte.
equalBlind(a, b, size) == TRUE

\* equal(a, aOffset, b, bOffset, size)
equal(a, b, size) == \A i \in 1..size : a[i] = b[i]

\* The tag, the bucket indices and the filter position of a pair of hash words.
TagOf(h1) == AndMask(Sar(h1, 16), 255)
F1(tag) == AndMask(Sar(tag, 4), 7)
\* f2 = 1 << (tag & 7), kept as the bit's index
F2(tag) == AndMask(tag, 7)

\* An assign that leaves the slot's value bytes as they were.
assignKeepingValue(buf, bucket, tag, slot, key, value) ==
  LET B == Bkt(buf, bucket)
  IN  Put(buf, bucket,
          [B EXCEPT !.present = SetBit(@, slot),
                    !.tags[slot] = tag,
                    !.keys[slot] = Copy(key, keySize)])

\* An assign that does not write the tag byte.
assignWithoutTag(buf, bucket, tag, slot, key, value) ==
  LET B == Bkt(buf, bucket)
  IN  Put(buf, bucket,
          [B EXCEPT !.present = SetBit(@, slot),
                    !.keys[slot] = Copy(key, keySize),
                    !.values[slot] = Copy(value, valueSize)])

\* Table.assign
assign(buf, bucket, tag, slot, key, value) ==
  LET B == Bkt(buf, bucket)
  IN  Put(buf, bucket,
          [B EXCEPT !.present = SetBit(@, slot),
                    !.tags[slot] = tag,
                    !.keys[slot] = Copy(key, keySize),
                    !.values[slot] = Copy(value, valueSize)])

\* Table.scan
RECURSIVE ScanFrom(_, _, _, _)
ScanFrom(B, tag, key, slot) ==
  IF slot >= SLOTS THEN slot
  ELSE IF /\ B.tags[slot] = tag
          /\ Bit(B.present, slot) # 0
          /\ equal(B.keys[slot], key, keySize)
       THEN slot
       ELSE ScanFrom(B, tag, key, slot + 1)

\* A scan whose loop stops after the first four slots.
scanFirstHalf(buf, bucket, tag, key) ==
  With(ScanFrom(Bkt(buf, bucket), tag, key, 0), LAMBDA s : IF s < 4 THEN s ELSE 8)

scan(buf, bucket, tag, key) == ScanFrom(Bkt(buf, bucket), tag, key, 0)

\* The loop of filterReset that adds the present elements back.
RECURSIVE RefillFrom(_, _, _)
RefillFrom(B, filter, slot) ==
  IF slot >= SLOTS THEN B
  ELSE IF Bit(B.present, slot) # 0 /\ F1(B.tags[slot]) = filter
       THEN RefillFrom([B EXCEPT !.filter[filter] = SetBit(@, F2(B.tags[slot]))],
                       filter, slot + 1)
       ELSE RefillFrom(B, filter, slot + 1)

\* A reset that clears the filter and adds nothing back.
filterResetBare(buf, bucket, filter) ==
  LET B == Bkt(buf, bucket)
  IN  Put(buf, bucket, [B EXCEPT !.filter[filter] = 0])

\* A reset that does not look at the counter.
filterResetUncounted(buf, bucket, filter) ==
  LET B == Bkt(buf, bucket)
  IN  IF B.filter[filter] = 0 THEN buf
      ELSE Put(buf, bucket, RefillFrom([B EXCEPT !.filter[filter] = 0], filter, 0))

\* Table.filterReset
filterReset(buf, bucket, filter) ==
  LET B == Bkt(buf, bucket)
  IN  IF B.count # 0 THEN buf
      ELSE IF B.filter[filter] = 0 THEN buf
      ELSE Put(buf, bucket, RefillFrom([B EXCEPT !.filter[filter] = 0], filter, 0))

RECURSIVE ResetAllFrom(_, _, _)
ResetAllFrom(buf, bucket, filter) ==
  IF filter >= 8 THEN buf
  ELSE ResetAllFrom(filterReset(buf, bucket, filter), bucket, filter + 1)

\* A decrement that resets no filter when the counter reaches 0.
filterDecrementNoReset(buf, bucket) ==
  LET B == Bkt(buf, bucket)
  IN  IF B.count = 0 THEN [buffer |-> buf, err |-> "count should not be 0"]
      ELSE IF B.count < COUNT_MAX
      THEN [buffer |-> Put(buf, bucket, [B EXCEPT !.count = @ - 1]), err |-> ""]
      ELSE [buffer |-> buf, err |-> ""]

\* A decrement that checks the counter and leaves it as it is.
filterDecrementKept(buf, bucket) ==
  LET B == Bkt(buf, bucket)
  IN  IF B.count = 0 THEN [buffer |-> buf, err |-> "count should not be 0"]
      ELSE [buffer |-> buf, err |-> ""]

\* Table.filterDecrementSecondPosition: the buffer, and the error thrown if any
filterDecrementSecondPosition(buf, bucket) ==
  LET B == Bkt(buf, bucket)
  IN  IF B.count = 0 THEN [buffer |-> buf, err |-> "count should not be 0"]
      ELSE IF B.count < COUNT_MAX
      THEN LET dec == Put(buf, bucket, [B EXCEPT !.count = @ - 1])
           IN  [buffer |-> IF B.count - 1 = 0 THEN ResetAllFrom(dec, bucket, 0) ELSE dec,
                err |-> ""]
      ELSE [buffer |-> buf, err |-> ""]

\* An increment that was left out.
filterIncrementNothing(buf, bucket) == buf

\* An increment that wraps around as a byte does.
filterIncrementWrapping(buf, bucket) ==
  LET B == Bkt(buf, bucket)
  IN  Put(buf, bucket, [B EXCEPT !.count = (@ + 1) % 256])

\* Table.filterIncrementSecondPosition
filterIncrementSecondPosition(buf, bucket) ==
  LET B == Bkt(buf, bucket)
  IN  IF B.count < COUNT_MAX
      THEN Put(buf, bucket, [B EXCEPT !.count = @ + 1])
      ELSE buf

\* buffer[b1 + f1] |= f2
FilterAdd(buf, bucket, tag) ==
  LET B == Bkt(buf, bucket)
  IN  Put(buf, bucket, [B EXCEPT !.filter[F1(tag)] = SetBit(@, F2(tag))])

\* buffer[b1 + f1] & f2
FilterHas(buf, bucket, tag) == Bit(Bkt(buf, bucket).filter[F1(tag)], F2(tag)) # 0

(***************************************************************************)
(* The operations of a shard (class Table).  A shard t is a record         *)
(* [bucket, buckets, mask, buffer]; bucket offsets of the source are       *)
(* bucket indices here.  Each operation yields the new shard, its result,  *)
(* the hash registers it leaves behind and the internal error it threw     *)
(* ("" if none).                                                           *)
(***************************************************************************)
\* new Table(keySize, valueSize, bucket, buckets)
NewTable(bucket, buckets) ==
  [bucket |-> bucket, buckets |-> buckets, mask |-> buckets - 1, buffer |-> Alloc]

\* An update that leaves the slot's old value.
SetValueLost(buf, bucket, slot, value) == buf

\* An update that also marks the slot as recently used.
SetValueMarkingUsed(buf, bucket, slot, value) ==
  LET B == Bkt(buf, bucket)
  IN  Put(buf, bucket, [B EXCEPT !.values[slot] = Copy(value, valueSize),
                                 !.clock = SetBit(@, slot)])

\* copyValue(value, valueOffset, this.buffer, this.valueOffset(bucket, slot))
SetValue(buf, bucket, slot, value) ==
  LET B == Bkt(buf, bucket)
  IN  Put(buf, bucket, [B EXCEPT !.values[slot] = Copy(value, valueSize)])

\* A mark written one byte late, into the CLOCK hand.
MarkUsedInHand(buf, bucket, slot) ==
  LET B == Bkt(buf, bucket)
  IN  Put(buf, bucket, [B EXCEPT !.hand = SetBit(@, slot)])

\* buffer[bucket + 18] |= (1 << slot)
MarkUsed(buf, bucket, slot) ==
  LET B == Bkt(buf, bucket)
  IN  Put(buf, bucket, [B EXCEPT !.clock = SetBit(@, slot)])

\* An unset that leaves the slot as it is.
ClearSlotKept(buf, bucket, slot) == buf

\* An unset that zeroes the slot but leaves its presence bit.
ClearSlotPresent(buf, bucket, slot) ==
  LET B == Bkt(buf, bucket)
  IN  Put(buf, bucket,
          [B EXCEPT !.tags[slot] = 0, !.keys[slot] = ZeroKey, !.values[slot] = ZeroValue])

\* The four statements of unset that empty a slot.
ClearSlot(buf, bucket, slot) ==
  LET B == Bkt(buf, bucket)
  IN  Put(buf, bucket,
          [B EXCEPT !.present = ClearBit(@, slot),
                    !.tags[slot] = 0,
                    !.keys[slot] = ZeroKey,
                    !.values[slot] = ZeroValue])

\* A vacate that moves a resident to its second position without counting it.
RECURSIVE VacateFromUncounted(_, _, _, _, _)
VacateFromUncounted(t, seed, bucket, slot, h) ==
  IF slot >= SLOTS
  THEN [buffer |-> t.buffer, slot |-> slot, H |-> h, err |-> ""]
  ELSE
    With(Hash(seed, Bkt(t.buffer, bucket).keys[slot]), LAMBDA hh :
      LET key == Bkt(t.buffer, bucket).keys[slot]
          value == Bkt(t.buffer, bucket).values[slot]
          tag == TagOf(hh[1])
          b1 == AndMask(hh[1], t.mask)
          b2 == AndMask(hh[2], t.mask)
          s2 == SLOT[Bkt(t.buffer, b2).present]
          s1 == SLOT[Bkt(t.buffer, b1).present]
      IN  IF bucket = b1
          THEN IF s2 < 8
               THEN [buffer |-> assign(t.buffer, b2, tag, s2, key, value),
                     slot |-> slot, H |-> hh, err |-> ""]
               ELSE VacateFromUncounted(t, seed, bucket, slot + 1, hh)
          ELSE IF bucket = b2
          THEN IF s1 < 8
               THEN With(filterDecrementSecondPosition(
                           assign(t.buffer, b1, tag, s1, key, value), b1),
                         LAMBDA d :
                           [buffer |-> d.buffer, slot |-> slot, H |-> hh, err |-> d.err])
               ELSE VacateFromUncounted(t, seed, bucket, slot + 1, hh)
          ELSE [buffer |-> t.buffer, slot |-> slot, H |-> hh,
                err |-> "bucket !== b1 && bucket !== b2"])

\* Table.vacate from slot on; h is the register contents so far.
RECURSIVE VacateFrom(_, _, _, _, _)
VacateFrom(t, seed, bucket, slot, h) ==
  IF slot >= SLOTS
  THEN [buffer |-> t.buffer, slot |-> slot, H |-> h, err |-> ""]
  ELSE
    With(Hash(seed, Bkt(t.buffer, bucket).keys[slot]), LAMBDA hh :
      LET key == Bkt(t.buffer, bucket).keys[slot]
          value == Bkt(t.buffer, bucket).values[slot]
          tag == TagOf(hh[1])
          b1 == AndMask(hh[1], t.mask)
          b2 == AndMask(hh[2], t.mask)
          s2 == SLOT[Bkt(t.buffer, b2).present]
          s1 == SLOT[Bkt(t.buffer, b1).present]
      IN  IF bucket = b1
          THEN IF s2 < 8
               THEN [buffer |-> filterIncrementSecondPosition(
                                  assign(t.buffer, b2, tag, s2, key, value), b1),
                     slot |-> slot, H |-> hh, err |-> ""]
               ELSE VacateFrom(t, seed, bucket, slot + 1, hh)
          ELSE IF bucket = b2
          THEN IF s1 < 8
               THEN With(filterDecrementSecondPosition(
                           assign(t.buffer, b1, tag, s1, key, value), b1),
                         LAMBDA d :
                           [buffer |-> d.buffer, slot |-> slot, H |-> hh, err |-> d.err])
               ELSE VacateFrom(t, seed, bucket, slot + 1, hh)
          ELSE [buffer |-> t.buffer, slot |-> slot, H |-> hh,
                err |-> "bucket !== b1 && bucket !== b2"])

\* A vacate that moves nothing and reports the bucket as stuck.
vacateNothing(t, seed, bucket, h) == [buffer |-> t.buffer, slot |-> SLOTS, H |-> h, err |-> ""]

\* A vacate that counts a pass that moved nothing on the bucket's counter.
vacateCountingFailure(t, seed, bucket, h) ==
  With(VacateFrom(t, seed, bucket, 0, h), LAMBDA v :
    IF v.err = "" /\ v.slot >= SLOTS
    THEN [v EXCEPT !.buffer = filterIncrementSecondPosition(v.buffer, bucket)]
    ELSE v)

\* Table.vacate
vacate(t, seed, bucket, h) == VacateFrom(t, seed, bucket, 0, h)

\* A set that counts an element placed in its second bucket on that bucket.
setCountingReceiver(t, seed, h1, h2, key, value, h) ==
  LET tag == TagOf(h1)
      b1 == AndMask(h1, t.mask)
      b2 == AndMask(h2, t.mask)
      buf == t.buffer
      hit == FilterHas(buf, b1, tag)
      s1 == IF hit THEN scan(buf, b1, tag, key) ELSE 8
      s2 == IF hit /\ s1 >= 8 THEN scan(buf, b2, tag, key) ELSE 8
      s3 == SLOT[Bkt(buf, b1).present]
      s4 == SLOT[Bkt(buf, b2).present]
      done(b, r, hh) == [t |-> [t EXCEPT !.buffer = b], r |-> r, H |-> hh, err |-> ""]
      fail(b, hh, e) == [t |-> [t EXCEPT !.buffer = b], r |-> -1, H |-> hh, err |-> e]
  IN  IF s1 < 8 THEN done(SetValue(buf, b1, s1, value), 1, h)
      ELSE IF s2 < 8 THEN done(SetValue(buf, b2, s2, value), 1, h)
      ELSE IF s3 < 8
      THEN done(FilterAdd(assign(buf, b1, tag, s3, key, value), b1, tag), 0, h)
      ELSE IF s4 < 8
      THEN done(filterIncrementSecondPosition(
                  FilterAdd(assign(buf, b2, tag, s4, key, value), b1, tag), b2), 0, h)
      ELSE
        With(vacate(t, seed, b1, h), LAMBDA v5 :
          IF v5.err # "" THEN fail(v5.buffer, v5.H, v5.err)
          ELSE IF v5.slot < 8
          THEN done(FilterAdd(assign(v5.buffer, b1, tag, v5.slot, key, value), b1, tag),
                    0, v5.H)
          ELSE
            With(vacate([t EXCEPT !.buffer = v5.buffer], seed, b2, v5.H), LAMBDA v6 :
              IF v6.err # "" THEN fail(v6.buffer, v6.H, v6.err)
              ELSE IF v6.slot < 8
              THEN done(filterIncrementSecondPosition(
                          FilterAdd(assign(v6.buffer, b2, tag, v6.slot, key, value),
                                    b1, tag), b2), 0, v6.H)
              ELSE done(v6.buffer, -1, v6.H)))

\* Table.set
set(t, seed, h1, h2, key, value, h) ==
  LET tag == TagOf(h1)
      b1 == AndMask(h1, t.mask)
      b2 == AndMask(h2, t.mask)
      buf == t.buffer
      hit == FilterHas(buf, b1, tag)
      s1 == IF hit THEN scan(buf, b1, tag, key) ELSE 8
      s2 == IF hit /\ s1 >= 8 THEN scan(buf, b2, tag, key) ELSE 8
      s3 == SLOT[Bkt(buf, b1).present]
      s4 == SLOT[Bkt(buf, b2).present]
      done(b, r, hh) == [t |-> [t EXCEPT !.buffer = b], r |-> r, H |-> hh, err |-> ""]
      fail(b, hh, e) == [t |-> [t EXCEPT !.buffer = b], r |-> -1, H |-> hh, err |-> e]
  IN  IF s1 < 8 THEN done(SetValue(buf, b1, s1, value), 1, h)
      ELSE IF s2 < 8 THEN done(SetValue(buf, b2, s2, value), 1, h)
      ELSE IF s3 < 8
      THEN done(FilterAdd(assign(buf, b1, tag, s3, key, value), b1, tag), 0, h)
      ELSE IF s4 < 8
      THEN done(filterIncrementSecondPosition(
                  FilterAdd(assign(buf, b2, tag, s4, key, value), b1, tag), b1), 0, h)
      ELSE
        With(vacate(t, seed, b1, h), LAMBDA v5 :
          IF v5.err # "" THEN fail(v5.buffer, v5.H, v5.err)
          ELSE IF v5.slot < 8
          THEN done(FilterAdd(assign(v5.buffer, b1, tag, v5.slot, key, value), b1, tag),
                    0, v5.H)
          ELSE
            With(vacate([t EXCEPT !.buffer = v5.buffer], seed, b2, v5.H), LAMBDA v6 :
              IF v6.err # "" THEN fail(v6.buffer, v6.H, v6.err)
              ELSE IF v6.slot < 8
              THEN done(filterIncrementSecondPosition(
                          FilterAdd(assign(v6.buffer, b2, tag, v6.slot, key, value),
                                    b1, tag), b1), 0, v6.H)
              ELSE done(v6.buffer, -1, v6.H)))

\* Table.unset
unset(t, h1, h2, key) ==
  LET tag == TagOf(h1)
      b1 == AndMask(h1, t.mask)
      b2 == AndMask(h2, t.mask)
      buf == t.buffer
      hit == FilterHas(buf, b1, tag)
      s1 == IF hit THEN scan(buf, b1, tag, key) ELSE 8
      s2 == IF hit /\ s1 >= 8 THEN scan(buf, b2, tag, key) ELSE 8
  IN  IF s1 < 8
      THEN [t |-> [t EXCEPT !.buffer = filterReset(ClearSlot(buf, b1, s1), b1, F1(tag))],
            r |-> 1, err |-> ""]
      ELSE IF s2 < 8
      THEN With(filterDecrementSecondPosition(ClearSlot(buf, b2, s2), b1), LAMBDA d :
             [t |-> [t EXCEPT !.buffer = d.buffer],
              r |-> IF d.err = "" THEN 1 ELSE -1, err |-> d.err])
      ELSE [t |-> t, r |-> 0, err |-> ""]

\* Table.exist
exist(t, h1, h2, key) ==
  LET tag == TagOf(h1)
      b1 == AndMask(h1, t.mask)
      b2 == AndMask(h2, t.mask)
  IN  IF FilterHas(t.buffer, b1, tag)
      THEN IF scan(t.buffer, b1, tag, key) < 8 THEN 1
           ELSE IF scan(t.buffer, b2, tag, key) < 8 THEN 1
           ELSE 0
      ELSE 0

\* Table.get; out is the caller's value buffer
get(t, h1, h2, key, out) ==
  LET tag == TagOf(h1)
      b1 == AndMask(h1, t.mask)
      b2 == AndMask(h2, t.mask)
      buf == t.buffer
      hit == FilterHas(buf, b1, tag)
      s1 == IF hit THEN scan(buf, b1, tag, key) ELSE 8
      s2 == IF hit /\ s1 >= 8 THEN scan(buf, b2, tag, key) ELSE 8
  IN  IF s1 < 8
      THEN [t |-> [t EXCEPT !.buffer = MarkUsed(buf, b1, s1)], r |-> 1,
            out |-> Copy(Bkt(buf, b1).values[s1], valueSize)]
      ELSE IF s2 < 8
      THEN [t |-> [t EXCEPT !.buffer = MarkUsed(buf, b2, s2)], r |-> 1,
            out |-> Copy(Bkt(buf, b2).values[s2], valueSize)]
      ELSE [t |-> t, r |-> 0, out |-> out]

\* A sweep that leaves the recently-used bits as they are.
RECURSIVE EvictLoopKeepingBits(_, _, _)
EvictLoopKeepingBits(B, tick, slot) ==
  IF tick = 0 THEN [B |-> B, slot |-> slot, left |-> 0]
  ELSE
    LET s == B.hand
        B1 == [B EXCEPT !.hand = AndMask(@ + 1, 7)]
    IN  IF Bit(B1.clock, s) = 0
        THEN [B |-> B1, slot |-> s, left |-> tick - 1]
        ELSE EvictLoopKeepingBits(B1, tick - 1, s)

\* The loop of Table.evict: tick ticks are left, slot is the slot last looked
\* at; left is the number of ticks not used when the loop ends.
RECURSIVE EvictLoop(_, _, _)
EvictLoop(B, tick, slot) ==
  IF tick = 0 THEN [B |-> B, slot |-> slot, left |-> 0]
  ELSE
    LET s == B.hand
        B1 == [B EXCEPT !.hand = AndMask(@ + 1, 7)]
    IN  IF Bit(B1.clock, s) = 0
        THEN [B |-> B1, slot |-> s, left |-> tick - 1]
        ELSE EvictLoop([B1 EXCEPT !.clock = ClearBit(@, s)], tick - 1, s)

\* An eviction that always takes slot 0 and leaves the CLOCK alone.
evictSlotZero(buf, bucket) == [buffer |-> buf, slot |-> 0]

\* An eviction that takes the slot after the one the sweep ends on.
evictSlotAfter(buf, bucket) ==
  LET e == EvictLoop(Bkt(buf, bucket), 8 + 1, -1)
  IN  [buffer |-> Put(buf, bucket, e.B), slot |-> (e.slot + 1) % 8]

\* Table.evict
evict(buf, bucket) ==
  LET e == EvictLoop(Bkt(buf, bucket), 8 + 1, -1)
  IN  [buffer |-> Put(buf, bucket, e.B), slot |-> e.slot]

\* The filter that cache resets for the element it evicts.
EvictedFilter(tag) == AndMask(tag, 7)

\* A replacement that also empties the slot after the one evict chose.
ReplaceAndDrop(t, buf, b1, s3, tag, key, value) ==
  LET B == Bkt(buf, b1)
      eviction == Bit(B.present, s3) # 0
      after == assign(buf, b1, tag, s3, key, value)
  IN  [t |-> [t EXCEPT !.buffer =
                MarkUsed(FilterAdd(Put(after, b1,
                                       [Bkt(after, b1) EXCEPT
                                          !.present = ClearBit(@, (s3 + 1) % 8)]),
                                   b1, tag),
                         b1, s3)],
       r |-> IF eviction THEN 2 ELSE 0]

\* What cache does with the slot s3 that evict chose in bucket b1 of buf.
Replace(t, buf, b1, s3, tag, key, value) ==
  LET B == Bkt(buf, b1)
      eviction == Bit(B.present, s3) # 0
      cleared == IF eviction
                 THEN filterReset(Put(buf, b1, [B EXCEPT !.present = ClearBit(@, s3)]),
                                  b1, EvictedFilter(B.tags[s3]))
                 ELSE buf
  IN  [t |-> [t EXCEPT !.buffer =
                MarkUsed(FilterAdd(assign(cleared, b1, tag, s3, key, value), b1, tag),
                         b1, s3)],
       r |-> IF eviction THEN 2 ELSE 0]

\* A cache that works on the key's second-position bucket.
cacheInSecond(t, h1, h2, key, value) ==
  LET tag == TagOf(h1)
      b2 == AndMask(h2, t.mask)
      buf == t.buffer
      s2 == IF FilterHas(buf, b2, tag) THEN scan(buf, b2, tag, key) ELSE 8
  IN  IF s2 < 8
      THEN [t |-> [t EXCEPT !.buffer = SetValue(MarkUsed(buf, b2, s2), b2, s2, value)],
            r |-> 1]
      ELSE With(evict(buf, b2), LAMBDA e : Replace(t, e.buffer, b2, e.slot, tag, key, value))

\* Table.cache
cache(t, h1, h2, key, value) ==
  LET tag == TagOf(h1)
      b1 == AndMask(h1, t.mask)
      buf == t.buffer
      s1 == IF FilterHas(buf, b1, tag) THEN scan(buf, b1, tag, key) ELSE 8
  IN  IF s1 < 8
      THEN [t |-> [t EXCEPT !.buffer = SetValue(MarkUsed(buf, b1, s1), b1, s1, value)],
            r |-> 1]
      ELSE With(evict(buf, b1), LAMBDA e : Replace(t, e.buffer, b1, e.slot, tag, key, value))

\* Assert.P2
IsP2(n) == n > 0 /\ \E k \in 0..30 : n = 2 ^ k

\* The next bucket after index that is not all zero, old.buckets if none.
NextIndex(old, index) ==
  LET later == {j \in DOMAIN old.buffer : j > index}
  IN  IF later = {} THEN old.buckets
      ELSE CHOOSE j \in later : \A i \in later : j <= i

\* A restore that puts the old buffer back and leaves the new mask.
RestoreButMask(old, t) == [t EXCEPT !.buckets = old.buckets, !.buffer = old.buffer]

\* this.buckets = buckets; this.buffer = buffer; this.mask = buckets - 1
Restore(old, t) ==
  [t EXCEPT !.buckets = old.buckets, !.buffer = old.buffer, !.mask = old.buckets - 1]

\* The loops of Table.resize: old is the shard before, t the shard being filled.
RECURSIVE ResizeLoop(_, _, _, _, _, _)
ResizeLoop(old, t, seed, index, slot, h) ==
  IF index >= old.buckets THEN [t |-> t, r |-> 1, H |-> h, err |-> ""]
  ELSE IF slot >= SLOTS THEN ResizeLoop(old, t, seed, NextIndex(old, index), 0, h)
  ELSE IF Bit(Bkt(old.buffer, index).present, slot) # 0
  THEN With(Hash(seed, Bkt(old.buffer, index).keys[slot]), LAMBDA hh :
         With(set(t, seed, hh[1], hh[2], Bkt(old.buffer, index).keys[slot],
                  Bkt(old.buffer, index).values[slot], hh),
              LAMBDA r :
                IF r.err # "" THEN [t |-> r.t, r |-> -1, H |-> r.H, err |-> r.err]
                ELSE IF r.r = -1
                THEN [t |-> Restore(old, r.t), r |-> 0, H |-> r.H, err |-> ""]
                ELSE ResizeLoop(old, r.t, seed, index, slot + 1, r.H)))
  ELSE ResizeLoop(old, t, seed, index, slot + 1, h)

\* A resize that takes the new size before it checks it.
resizeUnchecked(t, seed, resizeBuckets, h) ==
  IF resizeBuckets > BUCKETS_MAX \/ t.bucket * resizeBuckets > BUFFER_MAX
  THEN [t |-> [t EXCEPT !.buckets = resizeBuckets, !.buffer = Alloc,
                        !.mask = resizeBuckets - 1],
        r |-> -1, H |-> h, err |-> "maximum capacity exceeded"]
  ELSE ResizeLoop(t,
                  [t EXCEPT !.buckets = resizeBuckets,
                            !.buffer = Alloc,
                            !.mask = resizeBuckets - 1],
                  seed, NextIndex(t, -1), 0, h)

\* A resize whose loop over the old buckets starts at index 1.
resizeFromSecondBucket(t, seed, resizeBuckets, h) ==
  IF resizeBuckets < t.buckets * 2
  THEN [t |-> t, r |-> -1, H |-> h, err |-> "resizeBuckets must be at least"]
  ELSE IF ~IsP2(resizeBuckets)
  THEN [t |-> t, r |-> -1, H |-> h, err |-> "resizeBuckets must be a power of 2"]
  ELSE IF resizeBuckets > BUCKETS_MAX \/ t.bucket * resizeBuckets > BUFFER_MAX
  THEN [t |-> t, r |-> -1, H |-> h, err |-> "maximum capacity exceeded"]
  ELSE ResizeLoop(t,
                  [t EXCEPT !.buckets = resizeBuckets,
                            !.buffer = Alloc,
                            !.mask = resizeBuckets - 1],
                  seed, NextIndex(t, 0), 0, h)

\* Table.resize
resize(t, seed, resizeBuckets, h) ==
  IF resizeBuckets < t.buckets * 2
  THEN [t |-> t, r |-> -1, H |-> h, err |-> "resizeBuckets must be at least"]
  ELSE IF ~IsP2(resizeBuckets)
  THEN [t |-> t, r |-> -1, H |-> h, err |-> "resizeBuckets must be a power of 2"]
  ELSE IF resizeBuckets > BUCKETS_MAX \/ t.bucket * resizeBuckets > BUFFER_MAX
  THEN [t |-> t, r |-> -1, H |-> h, err |-> "maximum capacity exceeded"]
  ELSE ResizeLoop(t,
                  [t EXCEPT !.buckets = resizeBuckets,
                            !.buffer = Alloc,
                            !.mask = resizeBuckets - 1],
                  seed, NextIndex(t, -1), 0, h)

(***************************************************************************)
(* The static sizing helpers and the constructor (class HashTable).        *)
(***************************************************************************)
\* HashTable.bucket: Math.ceil((20 + (keySize + valueSize) * 8) / 64) * 64
bucket(ks, vs) == (((20 + ((ks + vs) * 8)) + 63) \div 64) * 64

\* HashTable.capacity: Math.floor(elements * 1.3); the modelled arguments stay
\* far below ELEMENTS_MAX.
Capacity(elements) == (elements * 13) \div 10

\* Math.ceil(Math.log2(Math.max(1, elements / 8 / buffers))), searched from p up
RECURSIVE PowerFrom(_, _, _)
PowerFrom(elements, buffers, p) ==
  IF (2 ^ p) * 8 * buffers >= elements THEN p ELSE PowerFrom(elements, buffers, p + 1)

\* HashTable.buckets
buckets(elements, buffers) ==
  LET b == 2 ^ PowerFrom(elements, buffers, 0)
  IN  IF b > BUCKETS_MIN THEN b ELSE BUCKETS_MIN

\* The loop of HashTable.buffers
RECURSIVE BuffersFrom(_, _, _, _)
BuffersFrom(stride, elements, n, limit) ==
  IF limit = 0 THEN n
  ELSE IF \/ n = BUFFERS_MAX
          \/ /\ buckets(elements, n) <= BUCKETS_MAX
             /\ buckets(elements, n) * stride <= BUFFER_MAX
       THEN n
       ELSE BuffersFrom(stride, elements, n * 2, limit - 1)

\* HashTable.buffers
buffers(ks, vs, elements) == BuffersFrom(bucket(ks, vs), elements, BUFFERS_MIN, 10000)

\* A constructor that counts the slots of one shard only.
ConstructOneShard(ks, vs, elementsMin, elementsMax) ==
  LET nbuf == buffers(ks, vs, Capacity(elementsMax))
      most == buckets(Capacity(elementsMin), nbuf)
      nbkt == IF most > BUCKETS_MAX THEN BUCKETS_MAX ELSE most
  IN  [bucket |-> bucket(ks, vs),
       capacity |-> nbkt * 8,
       length |-> 0,
       mask |-> nbuf - 1,
       mode |-> 0,
       tables |-> [i \in 0..(nbuf - 1) |-> NewTable(bucket(ks, vs), nbkt)]]

\* The fields the constructor sets from its arguments.  The arguments of the
\* scenarios pass every Assert of the constructor and its capacity test
\* (capacity >= elementsMin, bucket * buckets <= BUFFER_MAX), so it does not throw.
Construct(ks, vs, elementsMin, elementsMax) ==
  LET nbuf == buffers(ks, vs, Capacity(elementsMax))
      most == buckets(Capacity(elementsMin), nbuf)
      nbkt == IF most > BUCKETS_MAX THEN BUCKETS_MAX ELSE most
  IN  [bucket |-> bucket(ks, vs),
       capacity |-> nbuf * nbkt * 8,
       length |-> 0,
       mask |-> nbuf - 1,
       mode |-> 0,
       tables |-> [i \in 0..(nbuf - 1) |-> NewTable(bucket(ks, vs), nbkt)]]

(***************************************************************************)
(* The public operations (class HashTable) on a coordinator state          *)
(* st = [tables, length, capacity, mask, mode, H].  Each yields the new    *)
(* state, the value returned (r) and the error thrown (err, "" if none).   *)
(***************************************************************************)
ERROR_MAXIMUM_CAPACITY_EXCEEDED == "maximum capacity exceeded"
ERROR_MODE == "cache() and set() methods are mutually exclusive"
ERROR_SET == "set() failed despite multiple resize attempts"

\* A coordinator that counts an update as an insertion.
SetOutcomeCounting(st, idx, r) ==
  LET st1 == [st EXCEPT !.tables[idx] = r.t, !.H = r.H, !.length = @ + 1]
  IN  IF r.err # "" THEN [st |-> st1, r |-> -1, err |-> r.err, more |-> FALSE]
      ELSE IF r.r = -1 THEN [st |-> st1, r |-> -1, err |-> "", more |-> TRUE]
      ELSE [st |-> st1, r |-> r.r, err |-> "", more |-> FALSE]

\* What HashTable.set does with the result of a shard's set.
SetOutcome(st, idx, r) ==
  LET st1 == [st EXCEPT !.tables[idx] = r.t, !.H = r.H]
  IN  IF r.err # "" THEN [st |-> st1, r |-> -1, err |-> r.err, more |-> FALSE]
      ELSE IF r.r = 1 THEN [st |-> st1, r |-> 1, err |-> "", more |-> FALSE]
      ELSE IF r.r = 0
      THEN [st |-> [st1 EXCEPT !.length = @ + 1], r |-> 0, err |-> "", more |-> FALSE]
      ELSE [st |-> st1, r |-> -1, err |-> "", more |-> TRUE]

\* A coordinator that forgets to account for the shard's growth.
GrownUncounted(st, idx, t, h) == [st EXCEPT !.tables[idx] = t, !.H = h]

\* this.capacity -= buckets * 8; this.capacity += table.buckets * 8, for the
\* shard idx that resize turned from the one in st into t.
Grown(st, idx, t, h) ==
  [st EXCEPT !.tables[idx] = t, !.H = h,
             !.capacity = (@ - (st.tables[idx].buckets * 8)) + (t.buckets * 8)]

\* A loop that goes round a third time.
SetGivesUpLate(n) == n > 3

\* The end of the loop for (resize = 1; resize <= 2; resize++)
SetGivesUp(n) == n > 2

\* The shard-level calls HashTable.set makes are logged as it makes them:
\* the shard's set with its result, the shard's resize with the shard it
\* found and that shard's bucket count, the count it asked for, its result
\* (-1 if it threw) and the shard it left.
SetCalled(log, r) == Append(log, [call |-> "set", r |-> r])
ResizeCalled(log, old, size, rz) ==
  Append(log, [call |-> "resize", from |-> old.buckets, size |-> size, r |-> rz.r,
               old |-> old, t |-> rz.t])

\* A retry loop whose set after a resize takes the hashes from the registers.
RECURSIVE SetRetryFromRegisters(_, _, _, _, _, _, _, _, _)
SetRetryFromRegisters(st, idx, seed, h1, h2, key, value, n, log) ==
  IF SetGivesUp(n) THEN [st |-> st, r |-> -1, err |-> ERROR_SET, log |-> log]
  ELSE
    With(resize(st.tables[idx], seed, st.tables[idx].buckets * (2 ^ n), st.H), LAMBDA rz :
      With(ResizeCalled(log, st.tables[idx], st.tables[idx].buckets * (2 ^ n), rz),
           LAMBDA log1 :
      IF rz.err # ""
      THEN [st |-> [st EXCEPT !.tables[idx] = rz.t, !.H = rz.H], r |-> -1, err |-> rz.err,
            log |-> log1]
      ELSE IF rz.r = 1
      THEN With(SetOutcome(Grown(st, idx, rz.t, rz.H), idx,
                           set(rz.t, seed, rz.H[1], rz.H[2], key, value, rz.H)),
                LAMBDA o :
                  IF o.more
                  THEN SetRetryFromRegisters(o.st, idx, seed, h1, h2, key, value, n + 1,
                                             SetCalled(log1, o.r))
                  ELSE [st |-> o.st, r |-> o.r, err |-> o.err,
                        log |-> SetCalled(log1, o.r)])
      ELSE SetRetryFromRegisters([st EXCEPT !.tables[idx] = rz.t, !.H = rz.H],
                                 idx, seed, h1, h2, key, value, n + 1, log1)))

\* The loop for (resize = 1; resize <= 2; resize++) of HashTable.set
RECURSIVE SetRetry(_, _, _, _, _, _, _, _, _)
SetRetry(st, idx, seed, h1, h2, key, value, n, log) ==
  IF SetGivesUp(n) THEN [st |-> st, r |-> -1, err |-> ERROR_SET, log |-> log]
  ELSE
    With(resize(st.tables[idx], seed, st.tables[idx].buckets * (2 ^ n), st.H), LAMBDA rz :
      With(ResizeCalled(log, st.tables[idx], st.tables[idx].buckets * (2 ^ n), rz),
           LAMBDA log1 :
      IF rz.err # ""
      THEN [st |-> [st EXCEPT !.tables[idx] = rz.t, !.H = rz.H], r |-> -1, err |-> rz.err,
            log |-> log1]
      ELSE IF rz.r = 1
      THEN With(SetOutcome(Grown(st, idx, rz.t, rz.H), idx,
                           set(rz.t, seed, h1, h2, key, value, rz.H)),
                LAMBDA o :
                  IF o.more
                  THEN SetRetry(o.st, idx, seed, h1, h2, key, value, n + 1,
                                SetCalled(log1, o.r))
                  ELSE [st |-> o.st, r |-> o.r, err |-> o.err,
                        log |-> SetCalled(log1, o.r)])
      ELSE SetRetry([st EXCEPT !.tables[idx] = rz.t, !.H = rz.H],
                    idx, seed, h1, h2, key, value, n + 1, log1)))

\* The statements of HashTable.set after Hash(key, keyOffset, this.keySize).
SetHashed(st, seed, key, value, hh, idx) ==
  With(SetOutcome(st, idx, set(st.tables[idx], seed, hh[1], hh[2], key, value, hh)),
       LAMBDA o :
         IF o.more
         THEN SetRetry(o.st, idx, seed, hh[1], hh[2], key, value, 1,
                       SetCalled(<<>>, o.r))
         ELSE [st |-> o.st, r |-> o.r, err |-> o.err, log |-> SetCalled(<<>>, o.r)])

\* A set that does not look at the mode.
HashTableSetAnyMode(st, seed, key, value) ==
  With(Hash(seed, key), LAMBDA hh :
    SetHashed([st EXCEPT !.mode = 1, !.H = hh], seed, key, value, hh,
              ShardOf(hh, st.mask)))

\* A set that stores every key in shard 0.
HashTableSetFirstShard(st, seed, key, value) ==
  IF st.mode = 2 THEN [st |-> st, r |-> -1, err |-> ERROR_MODE, log |-> <<>>]
  ELSE With(Hash(seed, key), LAMBDA hh :
         SetHashed([st EXCEPT !.mode = 1, !.H = hh], seed, key, value, hh, 0))

\* HashTable.set
HashTableSet(st, seed, key, value) ==
  IF st.mode = 2 THEN [st |-> st, r |-> -1, err |-> ERROR_MODE, log |-> <<>>]
  ELSE With(Hash(seed, key), LAMBDA hh :
         SetHashed([st EXCEPT !.mode = 1, !.H = hh], seed, key, value, hh,
                   ShardOf(hh, st.mask)))

\* A cache that stores the element the way set does, growing the shard.
HashTableCacheAsSet(st, seed, key, value) ==
  IF st.mode = 1 THEN [st |-> st, r |-> -1, err |-> ERROR_MODE]
  ELSE With(Hash(seed, key), LAMBDA hh :
         With(SetHashed([st EXCEPT !.mode = 2, !.H = hh], seed, key, value, hh,
                        ShardOf(hh, st.mask)),
              LAMBDA o : [st |-> o.st, r |-> o.r, err |-> ""]))

\* A cache that looks at the mode only after it has stored the element.
HashTableCacheThenCheck(st, seed, key, value) ==
  With(Hash(seed, key), LAMBDA hh :
    With(cache(st.tables[ShardOf(hh, st.mask)], hh[1], hh[2], key, value), LAMBDA c :
      [st |-> [st EXCEPT !.H = hh,
                         !.mode = IF st.mode = 1 THEN 1 ELSE 2,
                         !.tables[ShardOf(hh, st.mask)] = c.t,
                         !.length = IF c.r = 0 THEN @ + 1 ELSE @],
       r |-> IF st.mode = 1 THEN -1 ELSE c.r,
       err |-> IF st.mode = 1 THEN ERROR_MODE ELSE ""]))

\* HashTable.cache
HashTableCache(st, seed, key, value) ==
  IF st.mode = 1 THEN [st |-> st, r |-> -1, err |-> ERROR_MODE]
  ELSE With(Hash(seed, key), LAMBDA hh :
         With(cache(st.tables[ShardOf(hh, st.mask)], hh[1], hh[2], key, value), LAMBDA c :
           [st |-> [st EXCEPT !.mode = 2, !.H = hh,
                              !.tables[ShardOf(hh, st.mask)] = c.t,
                              !.length = IF c.r = 0 THEN @ + 1 ELSE @],
            r |-> c.r, err |-> ""]))

\* HashTable.exist
HashTableExist(st, seed, key) ==
  With(Hash(seed, key), LAMBDA hh :
    [st |-> [st EXCEPT !.H = hh],
     r |-> exist(st.tables[ShardOf(hh, st.mask)], hh[1], hh[2], key), err |-> ""])

\* HashTable.get
HashTableGet(st, seed, key, out) ==
  With(Hash(seed, key), LAMBDA hh :
    With(get(st.tables[ShardOf(hh, st.mask)], hh[1], hh[2], key, out), LAMBDA g :
      [st |-> [st EXCEPT !.H = hh, !.tables[ShardOf(hh, st.mask)] = g.t],
       r |-> g.r, out |-> g.out, err |-> ""]))

\* An unset that counts a miss as a removal.
HashTableUnsetCounting(st, seed, key) ==
  With(Hash(seed, key), LAMBDA hh :
    With(unset(st.tables[ShardOf(hh, st.mask)], hh[1], hh[2], key), LAMBDA u :
      [st |-> [st EXCEPT !.H = hh, !.tables[ShardOf(hh, st.mask)] = u.t,
                         !.length = @ - 1],
       r |-> u.r, err |-> u.err]))

\* HashTable.unset
HashTableUnset(st, seed, key) ==
  With(Hash(seed, key), LAMBDA hh :
    With(unset(st.tables[ShardOf(hh, st.mask)], hh[1], hh[2], key), LAMBDA u :
      [st |-> [st EXCEPT !.H = hh, !.tables[ShardOf(hh, st.mask)] = u.t,
                         !.length = IF u.err = "" /\ u.r = 1 THEN @ - 1 ELSE @],
       r |-> u.r, err |-> u.err]))

(***************************************************************************)
(* The processes and workloads explored.                                   *)
(*                                                                         *)
(* A scenario is the constructor's elementsMin and elementsMax and the     *)
(* process's entropy.  elementsMax = 800000 gives two shards, 110000000    *)
(* gives 512; elementsMin                                                  *)
(* = 0, 40, 80, 400000, 800000 gives 2, 4, 8, 32768, 65536 buckets a      *)
(* shard.  The caller introduces the keys of the scenario's order one      *)
(* after the other (value ValueOf(b, FALSE)) and makes, in between, at     *)
(* most MaxExtra other calls, on the key it would introduce next or on a   *)
(* focus key it has introduced.                                            *)
(***************************************************************************)
PackOrder == <<50, 20, 1, 2, 3, 4, 5, 6, 7, 0, 11, 12, 13, 14, 15, 16, 17, 18, 9>>
ShortOrder == <<20, 1, 2, 3, 4, 5, 6, 7, 0, 9>>
ChainOrder == <<50, 21, 22, 23, 24, 25, 26, 27, 30, 28, 11, 12, 13, 14, 15, 16, 17, 18, 0>>
\* The last key finds both its buckets full and no resident of the first
\* free to move; residents of the second are.
StuckOrder == <<21, 22, 23, 24, 25, 26, 27, 30, 29, 11, 12, 13, 14, 15, 16, 17, 28>>
\* V is set, displaced by the ninth key of its first bucket, and set again.
AgainOrder == <<20, 1, 2, 3, 4, 5, 6, 7, 0, 20>>
\* The last key finds its two buckets, different ones, full of residents
\* that cannot move, before and after the shard's first doubling.
BothOrder == <<20, 1, 2, 3, 4, 5, 6, 7, 0, 11, 12, 13, 14, 15, 16, 17, 8>>
\* Two keys whose H2 have the same negative high byte and whose H1 differ
\* in the lowest bit of the high byte, and one whose high bytes are positive.
WideOrder == <<20, 8, 50>>
\* Nine keys of one first bucket; the first is the only one of its tag.
EvictOrder == <<29, 21, 22, 23, 24, 25, 26, 27, 28>>

Scenarios ==
  {[elementsMin |-> 0, elementsMax |-> 800000, seed |-> "pack",
    order |-> PackOrder, focus |-> {20, 0}],
   [elementsMin |-> 400000, elementsMax |-> 800000, seed |-> "pack",
    order |-> ShortOrder, focus |-> {20}],
   [elementsMin |-> 800000, elementsMax |-> 800000, seed |-> "pack",
    order |-> ShortOrder, focus |-> {20}],
   [elementsMin |-> 0, elementsMax |-> 800000, seed |-> "pack",
    order |-> AgainOrder, focus |-> {0}],
   [elementsMin |-> 40, elementsMax |-> 800000, seed |-> "chain",
    order |-> ChainOrder, focus |-> {28}],
   [elementsMin |-> 80, elementsMax |-> 800000, seed |-> "chain",
    order |-> ChainOrder, focus |-> {30}],
   [elementsMin |-> 40, elementsMax |-> 800000, seed |-> "chain",
    order |-> StuckOrder, focus |-> {29}],
   [elementsMin |-> 40, elementsMax |-> 800000, seed |-> "chain",
    order |-> EvictOrder, focus |-> {22}],
   [elementsMin |-> 0, elementsMax |-> 800000, seed |-> "pack",
    order |-> BothOrder, focus |-> {}],
   [elementsMin |-> 0, elementsMax |-> 110000000, seed |-> "pack",
    order |-> WideOrder, focus |-> {}]}

\* What the caller's value buffer holds before a get.
OutInit == [i \in 1..valueSize |-> 255]

Introduced == {scn.order[i] : i \in 1..used}
NextKey == IF used < Len(scn.order) THEN {scn.order[used + 1]} ELSE {}
\* The keys an extra call may name.
Callable == (Introduced \cap scn.focus) \cup NextKey

State == [tables |-> tables, length |-> length, capacity |-> capacity,
          mask |-> mask, mode |-> mode, H |-> H]

\* What exist and get answer for every key of the workloads in state st:
\* the keys exist finds, each with the value get writes for it.
ContentsOf(st) ==
  [b \in {k \in PlanBytes : HashTableExist(st, scn.seed, KeyOf(k)).r = 1} |->
     HashTableGet(st, scn.seed, KeyOf(b), OutInit).out]

Contents == ContentsOf(State)

NoCall == [op |-> "new", key |-> -1, alt |-> FALSE, r |-> -1, out |-> OutInit, err |-> "",
           log |-> <<>>]

NoPrev == [op |-> "none"]

Init ==
  /\ scn \in Scenarios
  /\ \E c \in {Construct(keySize, valueSize, scn.elementsMin, scn.elementsMax)} :
         /\ tables = c.tables
         /\ length = c.length
         /\ capacity = c.capacity
         /\ mask = c.mask
         /\ mode = c.mode
         /\ pre = [tables |-> c.tables, length |-> c.length, capacity |-> c.capacity,
                   mask |-> c.mask, mode |-> c.mode, H |-> <<0, 0>>]
  /\ H = <<0, 0>>
  /\ shadow = [b \in {} |-> ZeroValue]
  /\ used = 0
  /\ extras = 0
  /\ last = NoCall
  /\ prev = NoPrev
  /\ removed = {}

\* The history variables after a call on key b that inserts with method op.
Count(b, alt, inserting) ==
  IF inserting /\ b \in NextKey
  THEN used' = used + 1 /\ extras' = extras
  ELSE extras < MaxExtra /\ extras' = extras + 1 /\ used' = used

Remember(b, value) == [k \in (DOMAIN shadow) \cup {b} |-> IF k = b THEN value ELSE shadow[k]]
Forget(b) == [k \in (DOMAIN shadow) \ {b} |-> shadow[k]]

\* The call op(b) ended as o: the table's new state and the history of the call.
Called(op, b, alt, o, out, log) ==
  /\ tables' = o.st.tables
  /\ length' = o.st.length
  /\ capacity' = o.st.capacity
  /\ mask' = o.st.mask
  /\ mode' = o.st.mode
  /\ H' = o.st.H
  /\ last' = [op |-> op, key |-> b, alt |-> alt, r |-> o.r, out |-> out, err |-> o.err,
              log |-> log]
  /\ pre' = State
  /\ prev' = IF last.op \in {"set", "cache"}
             THEN [op |-> last.op, key |-> last.key, r |-> last.r, err |-> last.err,
                   pre |-> pre]
             ELSE NoPrev
  /\ removed' = IF op = "unset" /\ o.err = "" /\ o.r = 1 THEN removed \cup {b} ELSE removed
  /\ UNCHANGED scn

\* set(key, 0, value, 0)
Set(b, alt) ==
  /\ b \in Callable
  /\ alt => b \in Introduced
  /\ Count(b, alt, mode # 2)
  /\ \E o \in {HashTableSet(State, scn.seed, KeyOf(b), ValueOf(b, alt))} :
         /\ Called("set", b, alt, o, OutInit, o.log)
         /\ shadow' = IF o.err = "" THEN Remember(b, ValueOf(b, alt)) ELSE shadow

\* cache(key, 0, value, 0)
Cache(b, alt) ==
  /\ b \in Callable
  /\ alt => b \in Introduced
  /\ Count(b, alt, mode # 1)
  /\ \E o \in {HashTableCache(State, scn.seed, KeyOf(b), ValueOf(b, alt))} :
         /\ Called("cache", b, alt, o, OutInit, <<>>)
         /\ shadow' = IF o.err = "" THEN Remember(b, ValueOf(b, alt)) ELSE shadow

\* unset(key, 0)
Unset(b) ==
  /\ b \in Callable
  /\ Count(b, FALSE, FALSE)
  /\ \E o \in {HashTableUnset(State, scn.seed, KeyOf(b))} :
         /\ Called("unset", b, FALSE, o, OutInit, <<>>)
         /\ shadow' = IF o.err = "" THEN Forget(b) ELSE shadow

\* get(key, 0, value, 0)
Get(b) ==
  /\ b \in Callable
  /\ Count(b, FALSE, FALSE)
  /\ \E o \in {HashTableGet(State, scn.seed, KeyOf(b), OutInit)} :
         Called("get", b, FALSE, o, o.out, <<>>)
  /\ UNCHANGED shadow

\* exist(key, 0)
Exist(b) ==
  /\ b \in Callable
  /\ Count(b, FALSE, FALSE)
  /\ \E o \in {HashTableExist(State, scn.seed, KeyOf(b))} :
         Called("exist", b, FALSE, o, OutInit, <<>>)
  /\ UNCHANGED shadow

Next ==
  \/ \E b \in PlanBytes, alt \in BOOLEAN : Set(b, alt)
  \/ \E b \in PlanBytes, alt \in BOOLEAN : Cache(b, alt)
  \/ \E b \in PlanBytes : Unset(b)
  \/ \E b \in PlanBytes : Get(b)
  \/ \E b \in PlanBytes : Exist(b)

Spec == Init /\ [][Next]_vars

(***************************************************************************)
(* A process that crowds one first-position bucket.                        *)
(*                                                                         *)
(* A second-position counter reaches 255 only when 255 elements of one     *)
(* first bucket live in their second buckets.  The caller of this process  *)
(* sets the keys 0, 1, 2, ... of the entropy "crowd" in a shard of 64      *)
(* buckets: the first eight fill bucket 0 and each later one goes to its   *)
(* second bucket and is counted on bucket 0.  It makes no other call       *)
(* before the last CrowdFree keys, and then at most MaxExtra, on the key   *)
(* it would set next or on its focus key.                                  *)
(***************************************************************************)
CrowdKeys == 264
CrowdFree == 3

CrowdScenario ==
  [elementsMin |-> 700, elementsMax |-> 800000, seed |-> "crowd",
   order |-> [i \in 1..CrowdKeys |-> i - 1], focus |-> {CrowdKeys - (CrowdFree + 1)}]

CrowdInit ==
  /\ scn = CrowdScenario
  /\ \E c \in {Construct(keySize, valueSize, scn.elementsMin, scn.elementsMax)} :
         /\ tables = c.tables
         /\ length = c.length
         /\ capacity = c.capacity
         /\ mask = c.mask
         /\ mode = c.mode
         /\ pre = [tables |-> c.tables, length |-> c.length, capacity |-> c.capacity,
                   mask |-> c.mask, mode |-> c.mode, H |-> <<0, 0>>]
  /\ H = <<0, 0>>
  /\ shadow = [b \in {} |-> ZeroValue]
  /\ used = 0
  /\ extras = 0
  /\ last = NoCall
  /\ prev = NoPrev
  /\ removed = {}

\* The caller is past the keys it sets without any other call.
CrowdFilled == used >= CrowdKeys - CrowdFree

CrowdNext ==
  \/ ~CrowdFilled /\ \E b \in NextKey : Set(b, FALSE)
  \/ CrowdFilled /\ \E b \in Callable, alt \in BOOLEAN : Set(b, alt)
  \/ CrowdFilled /\ \E b \in Callable : Unset(b)
  \/ CrowdFilled /\ \E b \in Callable : Get(b)
  \/ CrowdFilled /\ \E b \in Callable : Exist(b)

CrowdSpec == CrowdInit /\ [][CrowdNext]_vars

(***************************************************************************)
(* What the properties below read off a state.                             *)
(***************************************************************************)
\* The slots <<shard, bucket, slot>> of st whose presence bit is set.
Occupied(st) ==
  UNION {UNION {{<<i, b, s>> : s \in {x \in Slots : Bit(st.tables[i].buffer[b].present, x) # 0}} :
                b \in DOMAIN st.tables[i].buffer} :
         i \in DOMAIN st.tables}

\* The key a slot holds, and the first-position bucket of that key.
KeyAt(st, x) == st.tables[x[1]].buffer[x[2]].keys[x[3]]
FirstBucket(st, x) == AndMask(Hash(scn.seed, KeyAt(st, x))[1], st.tables[x[1]].mask)

\* Key byte b is stored in st outside its first-position bucket.
InSecond(st, b) ==
  \E x \in Occupied(st) : KeyAt(st, x) = KeyOf(b) /\ x[2] # FirstBucket(st, x)

\* f without the key b.
Without(f, b) == [k \in (DOMAIN f) \ {b} |-> f[k]]

\* C1: in dict mode get(k) returns 1 and writes the value of the most recent
\* set(k, v), for every key k set and not unset since, whatever inserts,
\* updates, removals, displacements and resizes happened in between.
C1_GetReturnsLastSet ==
  mode = 1 =>
    \A b \in DOMAIN shadow :
      \E g \in {HashTableGet(State, scn.seed, KeyOf(b), OutInit)} :
        g.r = 1 /\ g.out = shadow[b]

\* get has just found key 20, which a later insertion displaced to its second
\* position, with the value it was set to.
C1_Witness ==
  /\ mode = 1
  /\ last.op = "get" /\ last.key = 20 /\ last.r = 1 /\ last.out = shadow[20]
  /\ InSecond(State, 20)

\* C2: for a key never inserted, or unset since, exist returns 0 and get
\* returns 0 and leaves the output value alone, also when the key shares its
\* tag, filter bit and both buckets with present keys.
C2_AbsentNotFound ==
  \A b \in PlanBytes \ DOMAIN shadow :
    /\ HashTableExist(State, scn.seed, KeyOf(b)).r = 0
    /\ \E g \in {HashTableGet(State, scn.seed, KeyOf(b), OutInit)} :
         g.r = 0 /\ g.out = OutInit

\* get has just missed an absent key whose two hash words are those of a
\* present key.
C2_Witness ==
  /\ last.op = "get" /\ last.r = 0 /\ last.out = OutInit
  /\ last.key \notin DOMAIN shadow
  /\ \E b \in DOMAIN Contents :
       Hash(scn.seed, KeyOf(b)) = Hash(scn.seed, KeyOf(last.key))

\* C3: unset(k) returns 1 iff k was present; afterwards k is absent, length
\* is one less, every other key keeps its value; and unset(k) right after a
\* set(k, v) of an absent k gives back the contents and length from before
\* the set.
C3_Unset ==
  last.op = "unset" =>
    /\ last.err = ""
    /\ last.r = (IF last.key \in DOMAIN ContentsOf(pre) THEN 1 ELSE 0)
    /\ Contents = Without(ContentsOf(pre), last.key)
    /\ length = pre.length - last.r
    /\ (prev.op = "set" /\ prev.key = last.key /\ prev.r = 0 /\ prev.err = "")
         => (Contents = ContentsOf(prev.pre) /\ length = prev.pre.length)

\* The absent key 0 was set, which displaced key 20, and then unset again.
C3_Witness ==
  /\ prev.op = "set" /\ prev.key = 0 /\ prev.r = 0 /\ prev.err = ""
  /\ last.op = "unset" /\ last.key = 0 /\ last.r = 1
  /\ InSecond(State, 20)
  /\ Contents = ContentsOf(prev.pre)

\* C4: after any sequence of calls, length is the number of slots whose
\* presence bit is set, over all buckets of all shards.
C4_LengthCountsPresence == length = Cardinality(Occupied(State))

\* cache has just evicted a resident of a full bucket.
C4_Witness ==
  /\ last.op = "cache" /\ last.r = 2
  /\ length = pre.length
  /\ length = Cardinality(Occupied(State))

\* C5: whenever HashTable.set returns, it returns 0 with length one more iff
\* the key was absent and 1 with length unchanged iff it was present, so a
\* second set of the same key returns 1 and adds nothing; it never returns -1.
C5_SetResult ==
  (last.op = "set" /\ last.err = "") =>
    /\ last.r \in {0, 1}
    /\ (last.r = 1) <=> (last.key \in DOMAIN ContentsOf(pre))
    /\ length = pre.length + (1 - last.r)
    /\ (prev.op = "set" /\ prev.key = last.key /\ prev.err = "")
         => (last.r = 1 /\ length = prev.pre.length + (1 - prev.r))

\* set has just updated key 20 in its second position, right after the set
\* that inserted another key.
C5_Witness ==
  /\ last.op = "set" /\ last.key = 20 /\ last.r = 1 /\ last.err = ""
  /\ InSecond(pre, 20)
  /\ length = pre.length
  /\ shadow[20] = ValueOf(20, TRUE)

\* The first-position bucket of every occupied slot's key has the key's filter bit.
FilterBits(st) ==
  \A x \in Occupied(st) :
    FilterHas(st.tables[x[1]].buffer, FirstBucket(st, x),
              TagOf(Hash(scn.seed, KeyAt(st, x))[1]))

\* C6: in either mode, for every occupied slot the bit T & 7 of filter byte
\* (T >> 4) & 7 is set in the first-position bucket of the slot's key, also
\* when the element lives in its second position; so a clear bit means the
\* key is in neither bucket.
C6_FilterNoFalseNegative ==
  /\ FilterBits(State)
  /\ \A b \in PlanBytes :
       \E hh \in {Hash(scn.seed, KeyOf(b))} :
         \E t \in {tables[ShardOf(hh, mask)]} :
           ~FilterHas(t.buffer, AndMask(hh[1], t.mask), TagOf(hh[1]))
             => /\ scan(t.buffer, AndMask(hh[1], t.mask), TagOf(hh[1]), KeyOf(b)) = 8
                /\ scan(t.buffer, AndMask(hh[2], t.mask), TagOf(hh[1]), KeyOf(b)) = 8

\* unset has just removed a key from a bucket that is the first position of
\* another key living in its second position.
C6_Witness ==
  /\ last.op = "unset" /\ last.r = 1
  /\ \E x \in Occupied(State) :
       /\ x[2] # FirstBucket(State, x)
       /\ \E hh \in {Hash(scn.seed, KeyOf(last.key))} :
            /\ x[1] = ShardOf(hh, mask)
            /\ FirstBucket(State, x) = AndMask(hh[1], tables[x[1]].mask)
  /\ FilterBits(State)

\* C7: mode starts at 0, goes 0 -> 1 on the first set and 0 -> 2 on the first
\* cache, never changes once non-zero, is left alone by get, exist and unset;
\* set throws the mode error iff it is called in mode 2, cache iff in mode 1.
C7_Mode ==
  /\ last.op = "new" => mode = 0
  /\ last.op = "set" =>
       /\ (last.err = ERROR_MODE) <=> (pre.mode = 2)
       /\ mode = (IF pre.mode = 2 THEN 2 ELSE 1)
  /\ last.op = "cache" =>
       /\ (last.err = ERROR_MODE) <=> (pre.mode = 1)
       /\ mode = (IF pre.mode = 1 THEN 1 ELSE 2)
  /\ last.op \in {"get", "exist", "unset"} => mode = pre.mode
  /\ last.op # "new" /\ pre.mode # 0 => mode = pre.mode

\* set has just been refused on a table that cache had locked.
C7_Witness ==
  /\ last.op = "set" /\ last.err = ERROR_MODE
  /\ pre.mode = 2 /\ mode = 2
  /\ prev.op = "cache"

\* C8: a call that throws the mode error leaves mode, length, capacity and
\* every shard (and the hash registers) as they were, so every later call
\* behaves as if it had not been made.
C8_ModeErrorMutatesNothing == last.err = ERROR_MODE => State = pre

\* cache has just been refused on a table that holds elements put by set.
C8_Witness ==
  /\ last.op = "cache" /\ last.err = ERROR_MODE
  /\ pre.mode = 1 /\ length > 0
  /\ State = pre

\* The sum of the bucket counts of the shards lo..hi, by halves.
RECURSIVE BucketsIn(_, _, _)
BucketsIn(ts, lo, hi) ==
  IF lo > hi THEN 0
  ELSE IF lo = hi THEN ts[lo].buckets
  ELSE BucketsIn(ts, lo, (lo + hi) \div 2) + BucketsIn(ts, ((lo + hi) \div 2) + 1, hi)

\* The sum of the shards' bucket counts from shard i on.
BucketsFrom(ts, i) == BucketsIn(ts, i, Cardinality(DOMAIN ts) - 1)

\* The counter of a bucket is the number of elements that have it as first
\* position and live elsewhere.
Counters(st) ==
  \A i \in DOMAIN st.tables :
    \A b \in (DOMAIN st.tables[i].buffer)
             \cup {FirstBucket(st, x) : x \in {y \in Occupied(st) : y[1] = i}} :
      Bkt(st.tables[i].buffer, b).count =
        Cardinality({x \in Occupied(st) :
                       x[1] = i /\ FirstBucket(st, x) = b /\ x[2] # b})

\* No key is held by two slots, and every element lies in the shard and in
\* one of the two buckets its hash words select, under its tag.
OneSlotPerKey(st) ==
  /\ \A x, y \in Occupied(st) : KeyAt(st, x) = KeyAt(st, y) => x = y
  /\ \A x \in Occupied(st) :
       \E hh \in {Hash(scn.seed, KeyAt(st, x))} :
         /\ x[1] = ShardOf(hh, st.mask)
         /\ x[2] \in {AndMask(hh[1], st.tables[x[1]].mask),
                      AndMask(hh[2], st.tables[x[1]].mask)}
         /\ st.tables[x[1]].buffer[x[2]].tags[x[3]] = TagOf(hh[1])

\* C9: when set throws 'set() failed despite multiple resize attempts', the
\* keys present before are present with their values, the key of the call is
\* still absent, length is unchanged, capacity is the sum of the shards'
\* bucket counts times 8, and filter bits, counters and one slot per key hold.
C9_SetFailureKeepsTable ==
  last.err = ERROR_SET =>
    /\ last.op = "set"
    /\ Contents = ContentsOf(pre)
    /\ last.key \notin DOMAIN Contents
    /\ length = pre.length
    /\ length = Cardinality(Occupied(State))
    /\ capacity = BucketsFrom(tables, 0) * 8
    /\ FilterBits(State)
    /\ Counters(State)
    /\ OneSlotPerKey(State)

\* set has just given up after two resizes that both went through.
C9_Witness ==
  /\ last.op = "set" /\ last.err = ERROR_SET
  /\ \E i \in DOMAIN tables : tables[i].buckets > pre.tables[i].buckets
  /\ Contents = ContentsOf(pre) /\ length > 8

\* C10: when a resize asked for during set would exceed BUCKETS_MAX (or
\* BUFFER_MAX), set throws 'maximum capacity exceeded'; the shard is as it
\* was before that resize (the shard the call found, or that shard after the
\* first resize of the call), length and capacity are as before that resize,
\* and every key present before is retrievable.
C10_CapacityErrorKeepsShard ==
  last.err = ERROR_MAXIMUM_CAPACITY_EXCEEDED =>
    \E idx \in {ShardOf(Hash(scn.seed, KeyOf(last.key)), mask)} :
      /\ last.op = "set"
      /\ \A i \in (DOMAIN tables) \ {idx} : tables[i] = pre.tables[i]
      /\ IF pre.tables[idx].buckets * 2 > BUCKETS_MAX
         THEN tables[idx] = pre.tables[idx] /\ capacity = pre.capacity
         ELSE /\ tables[idx].buckets = pre.tables[idx].buckets * 2
              /\ tables[idx].buckets * 4 > BUCKETS_MAX
              /\ tables[idx].mask = tables[idx].buckets - 1
              /\ tables[idx] =
                   resize(pre.tables[idx], scn.seed, pre.tables[idx].buckets * 2, H).t
              /\ capacity = pre.capacity + (pre.tables[idx].buckets * 8)
      /\ capacity = BucketsFrom(tables, 0) * 8
      /\ length = pre.length
      /\ mask = pre.mask
      /\ Contents = ContentsOf(pre)

\* set has just been refused its second resize, the first having doubled the
\* shard to BUCKETS_MAX buckets.
C10_Witness ==
  /\ last.op = "set" /\ last.err = ERROR_MAXIMUM_CAPACITY_EXCEEDED
  /\ pre.tables[0].buckets * 2 = BUCKETS_MAX
  /\ tables[0].buckets = BUCKETS_MAX
  /\ Contents = ContentsOf(pre) /\ length > 0

\* C11: after any sequence of operations, also after sets whose resize
\* returned 0, sets that resized and still failed and sets that threw,
\* capacity is the sum over the shards of bucketCount * 8.
C11_CapacitySumsShards == capacity = BucketsFrom(tables, 0) * 8

\* set has just inserted a key after a first resize that returned 0 and a
\* second that quadrupled the shard.
C11_Witness ==
  /\ last.op = "set" /\ last.r = 0 /\ last.err = ""
  /\ tables[0].buckets = pre.tables[0].buckets * 4
  /\ capacity = pre.capacity + (pre.tables[0].buckets * 3 * 8)

\* C12: in every reachable state of either mode length is at most capacity,
\* and length is never negative.
C12_LengthWithinCapacity == 0 <= length /\ length <= capacity

\* set has just filled the last free slot of shard 0: every slot of each of
\* its buckets is occupied.
C12_Witness ==
  /\ last.op = "set" /\ last.r = 0
  /\ Cardinality({x \in Occupied(State) : x[1] = 0}) = tables[0].buckets * 8
  /\ length <= capacity

\* What the constructor made of the scenario's arguments.
Constructed == Construct(keySize, valueSize, scn.elementsMin, scn.elementsMax)

\* C13: once the table is in cache mode, every shard keeps the bucketCount,
\* mask and bucket size it was constructed with (no resize replaces a
\* buffer), capacity stays at its value at construction, and length never
\* exceeds that capacity; and no call made in cache mode changes them.
C13_CacheNeverResizes ==
  mode = 2 =>
    \E made \in {Constructed} :
      /\ DOMAIN tables = DOMAIN made.tables
      /\ \A i \in DOMAIN tables :
           /\ tables[i].buckets = made.tables[i].buckets
           /\ tables[i].mask = made.tables[i].mask
           /\ tables[i].bucket = made.tables[i].bucket
           /\ DOMAIN tables[i].buffer \subseteq 0..(tables[i].buckets - 1)
           /\ pre.mode = 2 =>
                /\ tables[i].buckets = pre.tables[i].buckets
                /\ tables[i].mask = pre.tables[i].mask
      /\ capacity = made.capacity
      /\ length <= made.capacity

\* The whole workload has been cached into two-bucket shards: the last key
\* found its bucket full and took the place of a resident.
C13_Witness ==
  /\ mode = 2 /\ pre.mode = 2
  /\ used = Len(scn.order) /\ Len(scn.order) > 16
  /\ last.op = "cache" /\ last.r = 2
  /\ tables[0].buckets = BUCKETS_MIN
  /\ capacity = Constructed.capacity

\* The slot the CLOCK sweep of bucket B ends on: the first slot from the hand
\* on whose recently-used bit is clear, the hand's slot if every bit is set.
ClockVictim(B) ==
  LET clear == {d \in Slots : Bit(B.clock, (B.hand + d) % 8) = 0}
  IN  IF clear = {} THEN B.hand
      ELSE (B.hand + (CHOOSE d \in clear : \A e \in clear : d <= e)) % 8

\* The slots of bucket B that hold key.
SlotsHolding(B, key) == {s \in Slots : Bit(B.present, s) # 0 /\ B.keys[s] = key}

\* C14: HashTable.cache(k, v) returns 1 iff k is in its first-position
\* bucket, and then overwrites the value and leaves length; otherwise it
\* writes k into the slot the CLOCK sweep of that bucket chooses and returns
\* 2 with length unchanged if that slot held a live element, 0 with length
\* one more if it was empty.
C14_CacheResult ==
  (last.op = "cache" /\ last.err = "") =>
    \E hh \in {Hash(scn.seed, KeyOf(last.key))} :
      \E i \in {ShardOf(hh, mask)} :
        \E b1 \in {AndMask(hh[1], tables[i].mask)} :
          \E old \in {Bkt(pre.tables[i].buffer, b1)} :
            \E new \in {Bkt(tables[i].buffer, b1)} :
              IF SlotsHolding(old, KeyOf(last.key)) # {}
              THEN /\ last.r = 1
                   /\ length = pre.length
                   /\ SlotsHolding(new, KeyOf(last.key)) = SlotsHolding(old, KeyOf(last.key))
                   /\ \A s \in SlotsHolding(new, KeyOf(last.key)) :
                        new.values[s] = ValueOf(last.key, last.alt)
                   /\ new.present = old.present
              ELSE /\ SlotsHolding(new, KeyOf(last.key)) = {ClockVictim(old)}
                   /\ new.values[ClockVictim(old)] = ValueOf(last.key, last.alt)
                   /\ new.tags[ClockVictim(old)] = TagOf(hh[1])
                   /\ Bit(new.clock, ClockVictim(old)) = 1
                   /\ FilterHas(tables[i].buffer, b1, TagOf(hh[1]))
                   /\ new.present = SetBit(old.present, ClockVictim(old))
                   /\ IF Bit(old.present, ClockVictim(old)) # 0
                      THEN last.r = 2 /\ length = pre.length
                      ELSE last.r = 0 /\ length = pre.length + 1

\* cache has just put a new key into a full bucket whose hand had moved on
\* from slot 0: the sweep chose a later slot, which held a live element.
C14_Witness ==
  /\ last.op = "cache" /\ last.r = 2 /\ length = pre.length
  /\ \E hh \in {Hash(scn.seed, KeyOf(last.key))} :
       \E old \in {Bkt(pre.tables[ShardOf(hh, mask)].buffer,
                       AndMask(hh[1], pre.tables[ShardOf(hh, mask)].mask))} :
         /\ old.present = 255
         /\ ClockVictim(old) > 0
         /\ Bkt(tables[ShardOf(hh, mask)].buffer,
                AndMask(hh[1], tables[ShardOf(hh, mask)].mask)).keys[ClockVictim(old)]
              = KeyOf(last.key)

\* C15: when cache(k, v) returns 2, exactly one key that was present, the one
\* in the victim slot of k's first-position bucket, becomes absent and every
\* other key keeps its value; when it returns 0 or 1 no key becomes absent;
\* and cache changes no bucket but k's first-position bucket.
C15_CacheFrame ==
  (last.op = "cache" /\ last.err = "") =>
    \E hh \in {Hash(scn.seed, KeyOf(last.key))} :
      \E i \in {ShardOf(hh, mask)} :
        \E b1 \in {AndMask(hh[1], tables[i].mask)} :
          \E old \in {Bkt(pre.tables[i].buffer, b1)} :
            \E before \in {ContentsOf(pre)} : \E after \in {Contents} :
              \E gone \in {(DOMAIN before) \ (DOMAIN after)} :
                /\ last.r = 2 =>
                     /\ Cardinality(gone) = 1
                     /\ \A v \in gone : old.keys[ClockVictim(old)] = KeyOf(v)
                /\ last.r \in {0, 1} => gone = {}
                /\ DOMAIN after = ((DOMAIN before) \ gone) \cup {last.key}
                /\ \A b \in (DOMAIN after) \ {last.key} : after[b] = before[b]
                /\ after[last.key] = ValueOf(last.key, last.alt)
                /\ \A j \in DOMAIN tables :
                     \A b \in (DOMAIN tables[j].buffer) \cup (DOMAIN pre.tables[j].buffer) :
                       (j # i \/ b # b1) =>
                         Bkt(tables[j].buffer, b) = Bkt(pre.tables[j].buffer, b)

\* cache has just evicted key 20 from a bucket that other keys stay in,
\* while keys live in another bucket and in another shard.
C15_Witness ==
  /\ last.op = "cache" /\ last.r = 2
  /\ 20 \in DOMAIN ContentsOf(pre) /\ 20 \notin DOMAIN Contents
  /\ Cardinality(DOMAIN Contents) = Cardinality(DOMAIN ContentsOf(pre))
  /\ \E x, y \in Occupied(State) : x[1] # y[1]

\* C16: in cache mode get(k) returns 1 with the value most recently passed to
\* cache(k, .) or returns 0, never another value; right after cache(k, v) it
\* returns 1 with v.
C16_CacheGetNeverStale ==
  mode = 2 =>
    /\ \A b \in PlanBytes :
         \E g \in {HashTableGet(State, scn.seed, KeyOf(b), OutInit)} :
           \/ g.r = 0 /\ g.out = OutInit
           \/ g.r = 1 /\ b \in DOMAIN shadow /\ g.out = shadow[b]
    /\ (last.op = "cache" /\ last.err = "") =>
         \E g \in {HashTableGet(State, scn.seed, KeyOf(last.key), OutInit)} :
           g.r = 1 /\ g.out = ValueOf(last.key, last.alt)

\* get has just missed a key that was cached and then evicted by the caching
\* of another key.
C16_Witness ==
  /\ mode = 2
  /\ last.op = "get" /\ last.r = 0 /\ last.out = OutInit
  /\ last.key \in DOMAIN shadow
  /\ length >= 8

\* The shard the key of the last call belongs to.
ShardOfLast == ShardOf(Hash(scn.seed, KeyOf(last.key)), pre.mask)

\* The positions of the calls named call in a log of shard-level calls.
CallsIn(L, call) == {i \in 1..Len(L) : L[i].call = call}

\* The bucket count of shard idx before the i-th shard-level call of the log:
\* the size of the latest resize before it that returned 1, or the count
\* the coordinator found.
CountBefore(L, i, idx) ==
  LET done == {j \in CallsIn(L, "resize") : j < i /\ L[j].r = 1}
  IN  IF done = {} THEN pre.tables[idx].buckets
      ELSE L[CHOOSE j \in done : \A k \in done : k <= j].size

\* C17: a set that passes the mode check calls the shard's set first; a
\* result of 0 or 1 ends the call with that result.  After -1 it calls the
\* shard's resize at most twice, the first time for twice and the second
\* time for four times the bucket count the shard has at that moment; the
\* shard's set is called again after a resize exactly when that resize
\* returned 1; the first 0 or 1 ends the call; 'set() failed despite multiple
\* resize attempts' is thrown only after two resize attempts neither of which
\* led to an insert.  No call makes more than two resize attempts or more
\* than three shard-level set attempts.
C17_SetRetries ==
  (last.op = "set" /\ last.err # ERROR_MODE) =>
    \E L \in {last.log} : \E idx \in {ShardOfLast} :
      LET R == CallsIn(L, "resize")
          S == CallsIn(L, "set")
          Nth(i) == Cardinality({j \in R : j <= i})
      IN  /\ Len(L) >= 1 /\ L[1].call = "set"
          /\ Cardinality(R) <= 2 /\ Cardinality(S) <= 3
          /\ \A i \in R : /\ L[i].from = CountBefore(L, i, idx)
                          /\ L[i].size = L[i].from * (2 ^ Nth(i))
          /\ \A i \in 1..(Len(L) - 1) :
               /\ L[i].call = "set" => L[i].r = -1 /\ L[i + 1].call = "resize"
               /\ L[i].call = "resize" =>
                    /\ L[i].r \in {0, 1}
                    /\ (L[i + 1].call = "set") <=> (L[i].r = 1)
          /\ \E e \in {L[Len(L)]} :
               IF e.call = "set" /\ e.r \in {0, 1}
               THEN last.r = e.r /\ last.err = ""
               ELSE IF e.call = "resize" /\ e.r = -1
               THEN last.err = ERROR_MAXIMUM_CAPACITY_EXCEEDED
               ELSE /\ last.err = ERROR_SET
                    /\ Cardinality(R) = 2
                    /\ ~(e.call = "resize" /\ e.r = 1)
          /\ tables[idx].buckets = CountBefore(L, Len(L) + 1, idx)

\* set has just inserted the key at its third attempt, after two resizes
\* that both returned 1.
C17_Witness ==
  /\ last.op = "set" /\ last.r = 0 /\ Len(last.log) = 5
  /\ Cardinality(CallsIn(last.log, "set")) = 3
  /\ last.log[2].r = 1 /\ last.log[4].r = 1

\* C18: a set call leaves the bucket count of the key's shard at the value
\* it found, at twice that value or at four times that value, whether it
\* returns or throws.
C18_GrowsAtMostFourfold ==
  last.op = "set" =>
    \E idx \in {ShardOfLast} :
      tables[idx].buckets \in {pre.tables[idx].buckets * f : f \in {1, 2, 4}}

\* The occupied slots of a shard, as <<bucket, slot>>, and the (key, value)
\* pairs they hold.
SlotsOf(t) ==
  UNION {{<<b, s>> : s \in {x \in Slots : Bit(t.buffer[b].present, x) # 0}} :
         b \in DOMAIN t.buffer}
PairsOf(t) == {<<t.buffer[x[1]].keys[x[2]], t.buffer[x[1]].values[x[2]]>> : x \in SlotsOf(t)}

\* The resizes the last call made that returned r.
ResizesReturning(r) ==
  {last.log[i] : i \in {j \in CallsIn(last.log, "resize") : last.log[j].r = r}}

\* C19: a resize(n) that returns 1 leaves a shard of n buckets with the mask
\* n - 1, whose occupied slots hold the same (key, value) pairs as the
\* occupied slots of the shard it found, every key in one slot only, and
\* that slot in the key's first or second bucket under the mask n - 1.
C19_ResizeKeepsContents ==
  \A e \in ResizesReturning(1) :
    /\ e.t.buckets = e.size /\ e.t.mask = e.size - 1 /\ e.size >= 2 * e.old.buckets
    /\ DOMAIN e.t.buffer \subseteq 0..(e.size - 1)
    /\ PairsOf(e.t) = PairsOf(e.old)
    /\ \A x \in SlotsOf(e.t) : \A y \in SlotsOf(e.t) :
         e.t.buffer[x[1]].keys[x[2]] = e.t.buffer[y[1]].keys[y[2]] => x = y
    /\ \A x \in SlotsOf(e.t) :
         \E hh \in {Hash(scn.seed, e.t.buffer[x[1]].keys[x[2]])} :
           x[1] \in {AndMask(hh[1], e.t.mask), AndMask(hh[2], e.t.mask)}

\* A resize returned 1 on a shard of more than eight elements and moved one of
\* them to a bucket the old shard did not have.
C19_Witness ==
  \E e \in ResizesReturning(1) :
    /\ Cardinality(PairsOf(e.old)) > 8
    /\ \E x \in SlotsOf(e.t) : x[1] >= e.old.buckets

\* The slots the resizes of a log that returned 1 added, from its i-th call on.
RECURSIVE SlotsAdded(_, _)
SlotsAdded(L, i) ==
  IF i > Len(L) THEN 0
  ELSE (IF L[i].call = "resize" /\ L[i].r = 1 THEN (L[i].size - L[i].from) * SLOTS ELSE 0)
       + SlotsAdded(L, i + 1)

\* C20: a resize in which a re-insertion returns -1 returns 0 and leaves the
\* shard with the buffer, the bucket count and the mask it found, and the
\* coordinator does not change capacity for it: after the call capacity
\* differs from its value before by what the resizes that returned 1 added.
C20_FailedResizeRestores ==
  /\ \A e \in ResizesReturning(0) :
       /\ e.t.buffer = e.old.buffer
       /\ e.t.buckets = e.old.buckets
       /\ e.t.mask = e.old.mask
       /\ e.t = e.old
  /\ last.op = "set" => capacity = pre.capacity + SlotsAdded(last.log, 1)
  /\ \A i \in CallsIn(last.log, "resize") :
       (last.log[i].r = 0 /\ i < Len(last.log)) =>
         last.log[i + 1].call = "resize" /\ last.log[i + 1].old = last.log[i].old

\* A resize of a full shard has just returned 0, and the set that asked for
\* it went on to a second resize, which returned 1.
C20_Witness ==
  /\ last.op = "set"
  /\ \E e \in ResizesReturning(0) : Cardinality(PairsOf(e.old)) >= 8
  /\ Len(last.log) >= 4 /\ last.log[2].r = 0
  /\ last.log[3].call = "resize" /\ last.log[3].r = 1 /\ capacity > pre.capacity

\* C21: in every state no key is held by two slots of the table, and every
\* element lies in the shard its hash words select, in the bucket H1 & mask
\* or the bucket H2 & mask of that shard, under its tag.
C21_OneSlotPerKey == OneSlotPerKey(State)

\* set has just updated an element that lives in its second position, in a
\* shard with a full bucket.
C21_Witness ==
  /\ last.op = "set" /\ last.r = 1 /\ InSecond(State, last.key)
  /\ \E x \in Occupied(State) : tables[x[1]].buffer[x[2]].present = 255

\* C22: exist changes nothing: no shard and no field of the table.  get that
\* returns 0 changes nothing either; get that returns 1 changes only the
\* recently-used bit of the slot holding the key, in the bucket holding it,
\* and sets it: presence bits, tags, filters, counters, keys, values, CLOCK
\* hand, length, capacity, mask and mode are as before.
C22_LookupsKeepContents ==
  /\ last.op = "exist" => [State EXCEPT !.H = pre.H] = pre
  /\ (last.op = "get" /\ last.r = 0) => [State EXCEPT !.H = pre.H] = pre
  /\ (last.op = "get" /\ last.r = 1) =>
       \E x \in {y \in Occupied(pre) : KeyAt(pre, y) = KeyOf(last.key)} :
         /\ State = [pre EXCEPT !.H = H,
                                !.tables[x[1]].buffer[x[2]].clock = SetBit(@, x[3])]
         /\ Bit(tables[x[1]].buffer[x[2]].clock, x[3]) # 0

\* get has just found a key in its second position and set a recently-used
\* bit that was clear.
C22_Witness ==
  /\ last.op = "get" /\ last.r = 1 /\ InSecond(State, last.key)
  /\ State # [pre EXCEPT !.H = H]

\* C23: set(k, v) on a key that is present returns 1 and changes only the
\* value of the slot holding k: the element keeps its bucket and slot, also
\* when it lives in its second position and its first bucket has an empty
\* slot; presence bits, tags, filters, counters, keys, CLOCK bytes, bucket
\* counts, length, capacity and mode are as before.
C23_UpdateInPlace ==
  (last.op = "set" /\ last.err # ERROR_MODE) =>
    \A x \in {y \in Occupied(pre) : KeyAt(pre, y) = KeyOf(last.key)} :
      /\ last.r = 1 /\ last.err = ""
      /\ State = [pre EXCEPT !.H = H,
                             !.tables[x[1]].buffer[x[2]].values[x[3]] =
                               ValueOf(last.key, last.alt)]

\* set has just given a new value to an element that lives in its second
\* position while its first bucket has an empty slot.
C23_Witness ==
  /\ last.op = "set" /\ last.r = 1
  /\ \E x \in Occupied(State) :
       /\ KeyAt(State, x) = KeyOf(last.key)
       /\ x[2] # FirstBucket(State, x)
       /\ Bkt(tables[x[1]].buffer, FirstBucket(State, x)).present # 255
       /\ tables[x[1]].buffer[x[2]].values[x[3]] # pre.tables[x[1]].buffer[x[2]].values[x[3]]

\* The shard before and after the i-th shard-level call of the last set, a
\* call of the shard's set: the first finds the shard the coordinator found,
\* a later one the shard its resize left; what it leaves is what the next
\* resize finds, or the shard after the call.
BeforeSet(i) == IF i = 1 THEN pre.tables[ShardOfLast] ELSE last.log[i - 1].t
AfterSet(i) == IF i = Len(last.log) THEN tables[ShardOfLast] ELSE last.log[i + 1].old

\* The empty slots of a bucket, and the least member of a set of slots.
EmptySlots(B) == {s \in Slots : Bit(B.present, s) = 0}
Lowest(S) == CHOOSE s \in S : \A u \in S : s <= u

\* The other bucket of the resident of a slot, and the residents of a full
\* bucket whose other bucket has an empty slot.
Alternate(t, bk, slot) ==
  \* the bk of the pair (H1 & mask, H2 & mask) that is not this one
  With(Hash(scn.seed, Bkt(t.buffer, bk).keys[slot]), LAMBDA hh :
    IF AndMask(hh[1], t.mask) = bk THEN AndMask(hh[2], t.mask)
    ELSE AndMask(hh[1], t.mask))
Movable(t, bk) ==
  {s \in Slots : EmptySlots(Bkt(t.buffer, Alternate(t, bk, s))) # {}}

\* The slots of shard t that hold key.
Holding(t, key) == {x \in SlotsOf(t) : t.buffer[x[1]].keys[x[2]] = key}

\* Where the shard's set puts an absent key with the hash words hh into
\* shard t: <<bucket, slot>>, or <<>> if it returns -1.
PlaceOf(t, hh) ==
  LET b1 == AndMask(hh[1], t.mask)
      b2 == AndMask(hh[2], t.mask)
      B1 == Bkt(t.buffer, b1)
      B2 == Bkt(t.buffer, b2)
  IN  IF EmptySlots(B1) # {} THEN <<b1, Lowest(EmptySlots(B1))>>
      ELSE IF EmptySlots(B2) # {} THEN <<b2, Lowest(EmptySlots(B2))>>
      ELSE IF Movable(t, b1) # {} THEN <<b1, Lowest(Movable(t, b1))>>
      ELSE IF Movable(t, b2) # {} THEN <<b2, Lowest(Movable(t, b2))>>
      ELSE <<>>

\* C24: a shard's set of a key the shard does not hold puts it in the lowest
\* empty slot of b1; if b1 is full, in the lowest empty slot of b2; if both
\* are full, in the slot of the first resident of b1 whose other bucket has
\* an empty slot; if there is none, in the slot of the first such resident of
\* b2; it returns 0 in these cases, and -1 exactly when none of them applies.
C24_PlacementOrder ==
  (last.op = "set" /\ last.err # ERROR_MODE) =>
    \E hh \in {Hash(scn.seed, KeyOf(last.key))} :
      \A i \in CallsIn(last.log, "set") :
        \E t \in {BeforeSet(i)} :
          Holding(t, KeyOf(last.key)) = {} =>
            \E place \in {PlaceOf(t, hh)} :
              IF place = <<>> THEN last.log[i].r = -1
              ELSE /\ last.log[i].r = 0
                   /\ Holding(AfterSet(i), KeyOf(last.key)) = {place}

\* The shard's set has just put a key into its second bucket, in the slot of
\* a resident that it moved away, because both buckets were full and no
\* resident of the first could move.
C24_Witness ==
  /\ last.op = "set" /\ last.r = 0
  /\ \E hh \in {Hash(scn.seed, KeyOf(last.key))} :
       \E t \in {BeforeSet(Len(last.log))} :
         /\ EmptySlots(Bkt(t.buffer, AndMask(hh[1], t.mask))) = {}
         /\ EmptySlots(Bkt(t.buffer, AndMask(hh[2], t.mask))) = {}
         /\ Movable(t, AndMask(hh[1], t.mask)) = {}
         /\ Holding(tables[ShardOfLast], KeyOf(last.key)) = {PlaceOf(t, hh)}

\* What a slot of a shard holds: presence bit, tag, key and value.
SlotOf(t, x) ==
  [present |-> Bit(Bkt(t.buffer, x[1]).present, x[2]),
   tag |-> Bkt(t.buffer, x[1]).tags[x[2]],
   key |-> Bkt(t.buffer, x[1]).keys[x[2]],
   value |-> Bkt(t.buffer, x[1]).values[x[2]]]

\* Every <<bucket, slot>> of the buckets two shards of the same size hold.
AllSlots(t, u) == ((DOMAIN t.buffer) \cup (DOMAIN u.buffer)) \X Slots

\* The shard-level sets of the last call that found the key absent and both
\* its buckets full, and returned 0: those that called vacate with success.
VacatingSets ==
  {i \in CallsIn(last.log, "set") :
     /\ last.log[i].r = 0
     /\ Holding(BeforeSet(i), KeyOf(last.key)) = {}
     /\ \E hh \in {Hash(scn.seed, KeyOf(last.key))} : \E t \in {BeforeSet(i)} :
          /\ EmptySlots(Bkt(t.buffer, AndMask(hh[1], t.mask))) = {}
          /\ EmptySlots(Bkt(t.buffer, AndMask(hh[2], t.mask))) = {}}

\* C25: vacate of a full bucket moves the first resident, in slot order,
\* whose other bucket has an empty slot, into the lowest empty slot of that
\* bucket with its key, value and tag, and the slot it leaves is the one the
\* new element gets; no other slot of the shard changes (no resident of the
\* other bucket is displaced in turn).  After every shard-level set that
\* returns 0 the shard holds the (key, value) pairs it held plus the new one.
C25_VacateMovesOne ==
  (last.op = "set" /\ last.err # ERROR_MODE) =>
    \E hh \in {Hash(scn.seed, KeyOf(last.key))} :
      /\ \A i \in {j \in CallsIn(last.log, "set") : last.log[j].r = 0} :
           PairsOf(AfterSet(i)) =
             PairsOf(BeforeSet(i)) \cup {<<KeyOf(last.key), ValueOf(last.key, last.alt)>>}
      /\ \A i \in VacatingSets :
           \E t \in {BeforeSet(i)} : \E u \in {AfterSet(i)} :
             \E from \in {PlaceOf(t, hh)} :
               \E alt \in {Alternate(t, from[1], from[2])} :
                 \E to \in {<<alt, Lowest(EmptySlots(Bkt(t.buffer, alt)))>>} :
                   /\ from[2] = Lowest(Movable(t, from[1]))
                   /\ SlotOf(u, to) = SlotOf(t, from)
                   /\ SlotOf(u, from) = [present |-> 1, tag |-> TagOf(hh[1]),
                                         key |-> KeyOf(last.key),
                                         value |-> ValueOf(last.key, last.alt)]
                   /\ \A x \in AllSlots(t, u) \ {from, to} : SlotOf(u, x) = SlotOf(t, x)

\* vacate has just moved a resident that lived in its second position back
\* to its first bucket.
C25_Witness ==
  /\ last.op = "set" /\ VacatingSets # {}
  /\ \E hh \in {Hash(scn.seed, KeyOf(last.key))} :
       \E i \in VacatingSets : \E t \in {BeforeSet(i)} :
         \E from \in {PlaceOf(t, hh)} :
           /\ Alternate(t, from[1], from[2]) # from[1]
           /\ Alternate(t, from[1], from[2]) =
                AndMask(Hash(scn.seed, t.buffer[from[1]].keys[from[2]])[1], t.mask)

\* The first bucket of the resident of a slot of shard t.
HomeOf(t, x) == AndMask(Hash(scn.seed, Bkt(t.buffer, x[1]).keys[x[2]])[1], t.mask)

\* The counter changes of a shard-level set that puts an absent key with the
\* hash words hh into shard t, as <<bucket, amount>> pairs: one for the new
\* element if it lands outside its first bucket, one for the resident vacate
\* moves, if any.  Counted on the first bucket of the element concerned
\* (its home), or else on the bucket named by the other reading: the bucket
\* that receives an element entering its second position, and the vacated
\* bucket for a resident returning to its first.
CounterMoves(t, hh, home) ==
  LET b1 == AndMask(hh[1], t.mask)
      place == PlaceOf(t, hh)
      full == EmptySlots(Bkt(t.buffer, b1)) = {}
                /\ EmptySlots(Bkt(t.buffer, AndMask(hh[2], t.mask))) = {}
      own == IF place[1] # b1
             THEN <<[bucket |-> IF home THEN b1 ELSE place[1], by |-> 1]>>
             ELSE <<>>
      alt == Alternate(t, place[1], place[2])
      moved == IF ~full THEN <<>>
               ELSE IF HomeOf(t, place) = place[1]
               THEN <<[bucket |-> IF home THEN place[1] ELSE alt, by |-> 1]>>
               ELSE <<[bucket |-> IF home THEN alt ELSE place[1], by |-> -1]>>
  IN  own \o moved

\* The sum of the changes a sequence of counter moves makes to bucket j.
RECURSIVE ChangeOf(_, _)
ChangeOf(moves, j) ==
  IF moves = <<>> THEN 0
  ELSE (IF Head(moves).bucket = j THEN Head(moves).by ELSE 0) + ChangeOf(Tail(moves), j)

\* The counters after every shard-level set of the last call that placed an
\* absent key are the counters before plus the moves, counted as home says.
CountersFollow(home) ==
  (last.op = "set" /\ last.err # ERROR_MODE) =>
    \E hh \in {Hash(scn.seed, KeyOf(last.key))} :
      \A i \in {j \in CallsIn(last.log, "set") : last.log[j].r = 0} :
        \E t \in {BeforeSet(i)} : \E u \in {AfterSet(i)} :
          Holding(t, KeyOf(last.key)) = {} =>
            \E moves \in {CounterMoves(t, hh, home)} :
              \A j \in (DOMAIN t.buffer) \cup (DOMAIN u.buffer)
                         \cup {moves[k].bucket : k \in 1..Len(moves)} :
                Bkt(u.buffer, j).count = Bkt(t.buffer, j).count + ChangeOf(moves, j)

Displaced(st) ==
  {y \in {<<x[1], x[2], x[3], FirstBucket(st, x)>> : x \in Occupied(st)} : y[2] # y[4]}

\* Of such slots, those of shard i that lie in bucket b, and those that have
\* b as first bucket.
SecondIn(D, i, b) == {y \in D : y[1] = i /\ y[2] = b}
AwayFrom(D, i, b) == {y \in D : y[1] = i /\ y[4] = b}

\* The buckets of shard i of st that hold something or are the first bucket
\* of a displaced element: every other bucket is all zero and nobody's.
Buckets(st, D, i) ==
  (DOMAIN st.tables[i].buffer) \cup {y[4] : y \in {z \in D : z[1] = i}}

\* C27 as stated: the counter of a bucket that is below 255 is at least the
\* number of elements present in that bucket as their second position.
C27_CounterBoundsResidents ==
  \E D \in {Displaced(State)} :
    \A i \in DOMAIN tables : \A b \in Buckets(State, D, i) :
      \E c \in {Bkt(tables[i].buffer, b).count} :
        c < COUNT_MAX => c >= Cardinality(SecondIn(D, i, b))

\* C27, amended: the counter of a bucket B that is below 255 is at least the
\* number of elements of the shard that have B as first position and are
\* present in another bucket, their second position.
C27_CounterBoundsAway ==
  \E D \in {Displaced(State)} :
    \A i \in DOMAIN tables : \A b \in Buckets(State, D, i) :
      \E c \in {Bkt(tables[i].buffer, b).count} :
        c < COUNT_MAX => c >= Cardinality(AwayFrom(D, i, b))

\* Two elements live in their second position, in a bucket whose counter is
\* below 2, and the counter of their first bucket is 2.
C27_Witness ==
  \E D \in {Displaced(State)} :
    \E i \in DOMAIN tables : \E b \in Buckets(State, D, i) :
      /\ Cardinality(SecondIn(D, i, b)) >= 2
      /\ Bkt(tables[i].buffer, b).count < 2
      /\ \E y \in SecondIn(D, i, b) : Bkt(tables[i].buffer, y[4]).count = 2

\* C28: the counter of a bucket B that is below 255 is exactly the number of
\* elements of the shard whose first bucket is B and which lie in another
\* bucket; and where it is 0, every element of the shard whose first bucket
\* is B lies in B.
C28_CounterCountsAway ==
  \E D \in {Displaced(State)} :
    \A i \in DOMAIN tables : \A b \in Buckets(State, D, i) :
      \E c \in {Bkt(tables[i].buffer, b).count} :
        c < COUNT_MAX =>
          /\ c = Cardinality(AwayFrom(D, i, b))
          /\ c = 0 => \A y \in D : y[1] = i => y[4] # b

\* unset has just removed one of two elements living away from their first
\* bucket, whose counter went from 2 to 1.
C28_Witness ==
  /\ last.op = "unset" /\ last.r = 1
  /\ \E i \in DOMAIN tables : \E b \in DOMAIN tables[i].buffer :
       /\ Bkt(pre.tables[i].buffer, b).count = 2
       /\ Bkt(tables[i].buffer, b).count = 1
       /\ Cardinality(AwayFrom(Displaced(State), i, b)) = 1

\* The messages of the two internal errors of a shard.
InternalErrors == {"count should not be 0", "bucket !== b1 && bucket !== b2"}

\* C29: no call ends with 'count should not be 0' or with 'bucket !== b1 &&
\* bucket !== b2', and what would raise them is never the case: every
\* occupied slot holds a key whose first or second bucket, under the current
\* mask, is the bucket of the slot, so vacate finds nothing else; and the
\* counter of the first bucket of every element living in its second
\* position is above 0, so the decrement for it never finds 0.
C29_NoInternalError ==
  /\ last.err \notin InternalErrors
  /\ \A x \in Occupied(State) :
       \E hh \in {Hash(scn.seed, KeyAt(State, x))} : \E t \in {tables[x[1]]} :
         /\ x[2] \in {AndMask(hh[1], t.mask), AndMask(hh[2], t.mask)}
         /\ x[2] # AndMask(hh[1], t.mask) => Bkt(t.buffer, AndMask(hh[1], t.mask)).count > 0
  /\ (last.op = "unset" /\ last.r = 1 /\ InSecond(pre, last.key)) =>
       \E hh \in {Hash(scn.seed, KeyOf(last.key))} : \E t \in {pre.tables[ShardOfLast]} :
         Bkt(t.buffer, AndMask(hh[1], t.mask)).count > 0

\* unset has just removed an element from its second position, where vacate
\* had moved it, and the decrement brought the counter of its first bucket
\* to 0.
C29_Witness ==
  /\ last.op = "unset" /\ last.r = 1 /\ last.err = "" /\ InSecond(pre, last.key)
  /\ \E hh \in {Hash(scn.seed, KeyOf(last.key))} : \E t \in {tables[ShardOfLast]} :
       /\ Bkt(t.buffer, AndMask(hh[1], t.mask)).count = 0
       /\ Bkt(pre.tables[ShardOfLast].buffer, AndMask(hh[1], t.mask)).present = 255

\* The filter byte f of a bucket as its present elements make it: the bits
\* T & 7 of the tags T with (T >> 4) & 7 = f.
RECURSIVE BitsFrom(_, _)
BitsFrom(S, byte) ==
  IF S = {} THEN byte
  ELSE With(CHOOSE k \in S : TRUE, LAMBDA k : BitsFrom(S \ {k}, SetBit(byte, k)))
FilterOfResidents(B, f) ==
  BitsFrom({F2(B.tags[s]) : s \in {u \in Slots : Bit(B.present, u) # 0 /\ F1(B.tags[u]) = f}},
           0)

\* The last call was an unset that removed its key from the key's second
\* bucket.
UnsetFromSecond == last.op = "unset" /\ last.r = 1 /\ InSecond(pre, last.key)

UnsetFromFirst ==
  /\ last.op = "unset" /\ last.r = 1
  /\ \E x \in Occupied(pre) : KeyAt(pre, x) = KeyOf(last.key) /\ x[2] = FirstBucket(pre, x)

\* C31: filterReset(bucket, fi), on any bucket of any reachable shard,
\* changes nothing if the bucket's counter is not 0 or F[fi] is 0; otherwise
\* F[fi] becomes the bits T & 7 of the tags T of the occupied slots with
\* (T >> 4) & 7 = fi and no other byte changes.  So after unset has removed
\* a key from its first bucket b1 while the counter of b1 is 0, the filter
\* of the key's tag in b1 holds no bit that no element present in b1 has.
C31_FilterReset ==
  /\ \A i \in DOMAIN tables : \A b \in DOMAIN tables[i].buffer : \A fi \in Slots :
       \E buf \in {tables[i].buffer} : \E B \in {tables[i].buffer[b]} :
         filterReset(buf, b, fi) =
           IF B.count # 0 \/ B.filter[fi] = 0 THEN buf
           ELSE Put(buf, b, [B EXCEPT !.filter[fi] = FilterOfResidents(B, fi)])
  /\ UnsetFromFirst =>
       \E hh \in {Hash(scn.seed, KeyOf(last.key))} : \E u \in {tables[ShardOfLast]} :
         \E b1 \in {AndMask(hh[1], u.mask)} : \E fi \in {F1(TagOf(hh[1]))} :
           Bkt(pre.tables[ShardOfLast].buffer, b1).count = 0 =>
             Bkt(u.buffer, b1).filter[fi] = FilterOfResidents(Bkt(u.buffer, b1), fi)

\* unset has just removed a key from its first bucket, whose counter was 0,
\* and the key's filter bit, set before, is clear now while other elements
\* stay in the bucket.
C31_Witness ==
  /\ UnsetFromFirst
  /\ \E hh \in {Hash(scn.seed, KeyOf(last.key))} : \E u \in {tables[ShardOfLast]} :
       \E b1 \in {AndMask(hh[1], u.mask)} :
         /\ Bkt(pre.tables[ShardOfLast].buffer, b1).count = 0
         /\ FilterHas(pre.tables[ShardOfLast].buffer, b1, TagOf(hh[1]))
         /\ ~FilterHas(u.buffer, b1, TagOf(hh[1]))
         /\ Bkt(u.buffer, b1).present # 0

\* The last call was a cache that put its key into a slot that held another
\* element.
CacheEvicted == last.op = "cache" /\ last.err = "" /\ last.r = 2

\* The slot of bucket B that holds key.
SlotHolding(B, key) == CHOOSE s \in Slots : Bit(B.present, s) # 0 /\ B.keys[s] = key

\* C32: when cache displaces a live victim, the filter reset is the one of
\* the victim's tag, (victimTag >> 4) & 7, so after the call that filter of
\* b1 holds exactly the bits of the elements present in b1, the new one
\* included.
C32_VictimFilterReset ==
  CacheEvicted =>
    \E hh \in {Hash(scn.seed, KeyOf(last.key))} : \E u \in {tables[ShardOfLast]} :
      \E b1 \in {AndMask(hh[1], u.mask)} :
        \E old \in {Bkt(pre.tables[ShardOfLast].buffer, b1)} : \E new \in {Bkt(u.buffer, b1)} :
          \E fi \in {F1(old.tags[SlotHolding(new, KeyOf(last.key))])} :
            new.filter[fi] = FilterOfResidents(new, fi)

\* The slots the CLOCK sweep of bucket B passes over before it ends: those
\* from the hand up to the victim, all eight if every bit is set.
PassedOver(B) ==
  IF B.clock = 255 THEN Slots
  ELSE {(B.hand + d) % 8 : d \in {e \in Slots : e < (ClockVictim(B) - B.hand) % 8}}

RECURSIVE ClearAll(_, _)
ClearAll(byte, S) ==
  IF S = {} THEN byte
  ELSE With(CHOOSE k \in S : TRUE, LAMBDA k : ClearAll(ClearBit(byte, k), S \ {k}))

\* C33: evict(bucket), on any bucket of any reachable shard, ends after at
\* most 9 iterations (one more than the slots it passes over) and returns a
\* slot of 0..7: the first slot from the hand on, cyclically, whose
\* recently-used bit is clear, the hand's slot if all eight are set; it
\* clears the recently-used bits of the slots passed over, leaves the hand
\* at (slot + 1) & 7 and changes nothing else; and the hand byte of every
\* bucket is in 0..7.
C33_Evict ==
  \A i \in DOMAIN tables : \A b \in DOMAIN tables[i].buffer :
    \E B \in {tables[i].buffer[b]} : \E e \in {EvictLoop(tables[i].buffer[b], 8 + 1, -1)} :
      /\ B.hand \in 0..7
      /\ e.slot \in 0..7
      /\ e.slot = ClockVictim(B)
      /\ (8 + 1) - e.left = Cardinality(PassedOver(B)) + 1
      /\ (8 + 1) - e.left <= 9
      /\ e.B = [B EXCEPT !.hand = (e.slot + 1) % 8, !.clock = ClearAll(B.clock, PassedOver(B))]
      /\ evict(tables[i].buffer, b) =
           [buffer |-> Put(tables[i].buffer, b, e.B), slot |-> e.slot]

\* cache has just replaced an element of a bucket whose eight recently-used
\* bits were all set: the sweep took nine iterations, chose the hand's slot
\* and left only that slot's bit set, put there by cache afterwards.
C33_Witness ==
  /\ CacheEvicted
  /\ \E hh \in {Hash(scn.seed, KeyOf(last.key))} : \E u \in {tables[ShardOfLast]} :
       \E b1 \in {AndMask(hh[1], u.mask)} :
         \E old \in {Bkt(pre.tables[ShardOfLast].buffer, b1)} : \E new \in {Bkt(u.buffer, b1)} :
           /\ old.clock = 255
           /\ EvictLoop(old, 8 + 1, -1).left = 0
           /\ new.keys[old.hand] = KeyOf(last.key)
           /\ new.clock = SetBit(0, old.hand)
           /\ new.hand = (old.hand + 1) % 8

\* The last call was a cache in cache mode that did not throw.
Cached == mode = 2 /\ last.op = "cache" /\ last.err = ""

\* The keys of the slots of bucket B whose presence bit is set.
KeysIn(B) == {B.keys[s] : s \in {u \in Slots : Bit(B.present, u) # 0}}

\* No unset has removed a key whose first bucket is bucket b1 of shard i.
NoneRemovedFrom(i, b1) ==
  \A k \in removed :
    \E hh \in {Hash(scn.seed, KeyOf(k))} :
      ShardOf(hh, mask) # i \/ AndMask(hh[1], tables[i].mask) # b1

\* What C34 says of the last cache call, given that it started from bucket
\* old of its key's first position and left bucket new: it returned 2 only
\* if old was full, and if old had an empty slot and not the key, it
\* returned 0 and every key of old is in new.
EvictedOnlyWhenFull(old, new) ==
  /\ last.r = 2 => old.present = 255
  /\ (old.present # 255 /\ KeyOf(last.key) \notin KeysIn(old)) =>
       /\ last.r = 0
       /\ KeysIn(old) \subseteq KeysIn(new)

\* C34 as stated: in cache mode cache returns 2 only when all eight slots of
\* the key's first bucket are occupied; while that bucket has an empty slot,
\* cache of a new key returns 0 and loses no present key, whatever cache,
\* get, exist and unset calls came before.
C34_EvictsOnlyWhenFull ==
  Cached =>
    \E hh \in {Hash(scn.seed, KeyOf(last.key))} : \E u \in {tables[ShardOfLast]} :
      \E b1 \in {AndMask(hh[1], u.mask)} :
        EvictedOnlyWhenFull(Bkt(pre.tables[ShardOfLast].buffer, b1), Bkt(u.buffer, b1))

\* C34, amended: the same, as long as no unset has removed a key from that
\* bucket.
C34_EvictsOnlyWhenFullUnlessUnset ==
  Cached =>
    \E hh \in {Hash(scn.seed, KeyOf(last.key))} : \E u \in {tables[ShardOfLast]} :
      \E b1 \in {AndMask(hh[1], u.mask)} :
        NoneRemovedFrom(ShardOfLast, b1) =>
          EvictedOnlyWhenFull(Bkt(pre.tables[ShardOfLast].buffer, b1), Bkt(u.buffer, b1))

\* cache has just put a new key into the last empty slot of a bucket from
\* which nothing was ever removed, after a get or exist in between, and
\* returned 0.
C34_Witness ==
  /\ Cached /\ last.r = 0 /\ removed = {} /\ extras > 0
  /\ \E hh \in {Hash(scn.seed, KeyOf(last.key))} : \E u \in {tables[ShardOfLast]} :
       \E b1 \in {AndMask(hh[1], u.mask)} :
         /\ Bkt(pre.tables[ShardOfLast].buffer, b1).present = 127
         /\ Bkt(u.buffer, b1).present = 255

\* C35: in cache mode every element is in the first-position bucket of its
\* key, the counter of every bucket is 0 (so no filter reset is held back),
\* and no key is in two slots.
C35_CacheModeFirstBucketOnly ==
  mode = 2 =>
    \E st \in {State} : \E occ \in {Occupied(State)} :
      /\ \A x \in occ : x[2] = FirstBucket(st, x)
      /\ \A i \in DOMAIN tables : \A b \in DOMAIN tables[i].buffer :
           tables[i].buffer[b].count = 0
      /\ \A x \in occ : \A y \in occ : KeyAt(st, x) = KeyAt(st, y) => x = y

\* cache has just evicted an element from the full first bucket of its key
\* although the key's second bucket, another one, was empty.
C35_Witness ==
  /\ CacheEvicted
  /\ \E hh \in {Hash(scn.seed, KeyOf(last.key))} : \E u \in {tables[ShardOfLast]} :
       /\ AndMask(hh[1], u.mask) # AndMask(hh[2], u.mask)
       /\ Bkt(u.buffer, AndMask(hh[1], u.mask)).present = 255
       /\ Bkt(u.buffer, AndMask(hh[2], u.mask)) = ZeroBucket

\* The shard-level sets of the last set that returned -1.
FailedSets ==
  IF last.op = "set"
  THEN {i \in 1..Len(last.log) : last.log[i].call = "set" /\ last.log[i].r = -1}
  ELSE {}

\* C36: a shard-level set that returns -1 leaves the shard as it found it:
\* the buffer, byte for byte, and with it every resident, filter and counter.
C36_FailedSetWritesNothing ==
  \A i \in FailedSets : AfterSet(i) = BeforeSet(i)

\* The shard's set has just returned -1 twice in one call, before and after
\* a resize, for a key whose two buckets differed the second time: each time
\* both buckets were full and both vacate passes moved nothing.
C36_Witness ==
  /\ Cardinality(FailedSets) >= 2
  /\ \E i \in FailedSets : \E hh \in {Hash(scn.seed, KeyOf(last.key))} :
       /\ i > 1
       /\ AndMask(hh[1], BeforeSet(i).mask) # AndMask(hh[2], BeforeSet(i).mask)
       /\ Bkt(BeforeSet(i).buffer, AndMask(hh[1], BeforeSet(i).mask)).present = 255
       /\ Bkt(BeforeSet(i).buffer, AndMask(hh[2], BeforeSet(i).mask)).present = 255

\* C37: a call on key k leaves every shard but the one selected for k as it
\* was (buffer, bucket count, mask), also when it displaces residents or
\* resizes k's shard; the coordinator's mask and its shards' indices never
\* change; and every element is in the shard its key selects, so each
\* operation looks for a key where the others put it.
C37_OtherShardsUntouched ==
  /\ mask = pre.mask
  /\ DOMAIN tables = DOMAIN pre.tables
  /\ last.op # "new" =>
       \A i \in (DOMAIN tables) \ {ShardOfLast} : tables[i] = pre.tables[i]
  /\ \A i \in DOMAIN tables : \A b \in DOMAIN tables[i].buffer :
       \A key \in KeysIn(tables[i].buffer[b]) : ShardOf(Hash(scn.seed, key), mask) = i

\* A set has just grown its shard, rebuilding it in a new buffer, while the
\* other shard holds an element and is as it was.
C37_Witness ==
  /\ last.op = "set" /\ last.r = 0
  /\ ResizesReturning(1) # {}
  /\ tables[ShardOfLast].buckets > pre.tables[ShardOfLast].buckets
  /\ \E i \in (DOMAIN tables) \ {ShardOfLast} :
       tables[i].buffer # Alloc /\ tables[i] = pre.tables[i]

\* The last call was a set that stored its key or updated it.
SetStored == last.op = "set" /\ last.err = "" /\ last.r \in {0, 1}

\* C38: whatever vacate and resize left in the hash registers during a set,
\* the element is stored under the tag of its own key, in the first or
\* second bucket of its own key (under the shard's mask after the call) and
\* with its filter bit set in its own first bucket, in one slot only.
C38_StoredUnderOwnHashes ==
  SetStored =>
    \E hh \in {Hash(scn.seed, KeyOf(last.key))} : \E u \in {tables[ShardOfLast]} :
      \E at \in {{x \in SlotsOf(u) :
                    Bkt(u.buffer, x[1]).keys[x[2]] = KeyOf(last.key)}} :
        /\ Cardinality(at) = 1
        /\ \A x \in at :
             /\ Bkt(u.buffer, x[1]).tags[x[2]] = TagOf(hh[1])
             /\ x[1] \in {AndMask(hh[1], u.mask), AndMask(hh[2], u.mask)}
             /\ Bkt(u.buffer, x[1]).values[x[2]] = ValueOf(last.key, last.alt)
        /\ FilterHas(u.buffer, AndMask(hh[1], u.mask), TagOf(hh[1]))

\* A set has just stored its key after a resize that re-hashed the residents:
\* the registers hold the hashes of another key, with another tag and other
\* buckets.
C38_Witness ==
  /\ SetStored /\ last.r = 0
  /\ ResizesReturning(1) # {}
  /\ \E hh \in {Hash(scn.seed, KeyOf(last.key))} : \E u \in {tables[ShardOfLast]} :
       /\ H # hh
       /\ TagOf(H[1]) # TagOf(hh[1])
       /\ AndMask(H[1], u.mask) \notin {AndMask(hh[1], u.mask), AndMask(hh[2], u.mask)}

\* (((H1 >>> 24) << 8) | (H2 >>> 24)) & m: both high bytes taken as unsigned
\* values of 0..255.
UnsignedShard(h, m) == ((((h[1] \div 16777216) % 256) * 256) + ((h[2] \div 16777216) % 256)) % (m + 1)

\* C40: the shard an element is stored in has an index of 0..shardCount - 1
\* and it is (((H1 >>> 24) << 8) | (H2 >>> 24)) & mask of its key's hashes,
\* the high bytes taken unsigned; so with more than 256 shards two keys
\* whose H2 have the same high byte and whose H1 high bytes differ in a bit
\* the mask keeps are in different shards.
C40_ShardIndex ==
  \A i \in {j \in DOMAIN tables : tables[j].buffer # Alloc} :
    \A b \in DOMAIN tables[i].buffer : \A key \in KeysIn(tables[i].buffer[b]) :
      \E hh \in {Hash(scn.seed, key)} :
        /\ i \in 0..mask
        /\ mask + 1 = Cardinality(DOMAIN tables)
        /\ i = UnsignedShard(hh, mask)

\* Every bit of byte a is a bit of byte b.
BitsWithin(a, b) == \A s \in Slots : Bit(a, s) = 1 => Bit(b, s) = 1

\* C39: a second-position counter is never above 255; on a bucket whose
\* counter is 255 the increment, the decrement and the reset of a filter
\* change nothing (and the decrement does not throw); and a call that finds
\* a counter at 255 and does not replace the shard's buffer by a resize
\* leaves it at 255 and clears no filter bit of that bucket.
C39_CounterSaturates ==
  \A i \in DOMAIN tables :
    /\ \A b \in DOMAIN tables[i].buffer :
         \E buf \in {tables[i].buffer} :
           /\ buf[b].count \in 0..COUNT_MAX
           /\ buf[b].count = COUNT_MAX =>
                /\ filterIncrementSecondPosition(buf, b) = buf
                /\ filterDecrementSecondPosition(buf, b) = [buffer |-> buf, err |-> ""]
                /\ \A f \in Slots : filterReset(buf, b, f) = buf
    /\ tables[i].buckets = pre.tables[i].buckets =>
         \A b \in DOMAIN pre.tables[i].buffer :
           \E old \in {pre.tables[i].buffer[b]} : \E new \in {Bkt(tables[i].buffer, b)} :
             old.count = COUNT_MAX =>
               /\ new.count = COUNT_MAX
               /\ \A f \in Slots : BitsWithin(old.filter[f], new.filter[f])

\* unset has just removed an element from its second bucket while the counter
\* of its first bucket was 255: the counter is still 255 and the filters of
\* that bucket are what they were.
C39_Witness ==
  /\ UnsetFromSecond
  /\ \E hh \in {Hash(scn.seed, KeyOf(last.key))} :
       \E old \in {Bkt(pre.tables[ShardOfLast].buffer,
                       AndMask(hh[1], pre.tables[ShardOfLast].mask))} :
         \E new \in {Bkt(tables[ShardOfLast].buffer,
                         AndMask(hh[1], pre.tables[ShardOfLast].mask))} :
           /\ old.count = COUNT_MAX
           /\ new.count = COUNT_MAX
           /\ new.filter = old.filter
           /\ length = pre.length - 1

====
